---- MODULE Spec2Model ----
(***************************************************************************)
(* A model of the county land-record scrapers (lacrosse_scraper.py,        *)
(* scraper.py, multi_county_scraper.py) and of the tax-data normalizer     *)
(* (data_normalizer.py).                                                   *)
(*                                                                         *)
(* Python None is the string "null".  A cookie jar is the set of the names *)
(* of the cookies it holds.  The remote sites and the browser are the      *)
(* environment: every request draws its outcome (transport failure,        *)
(* response shape, cookie set by the server, element found or not) from a  *)
(* small set with \E.                                                      *)
(***************************************************************************)
EXTENDS Integers, Sequences, FiniteSets, TLC

\* ------------------------------------------------------------------ bounds
\* Longest parcel list handed to scrape().
MaxParcels == 2

\* ------------------------------------------------------------- universes
\* Parcel identifiers the caller may pass.
ParcelIds == {"A", "B"}
\* The parcel lists handed to scrape(): no step reads the value of an id, so
\* the lists of distinct ids, one of each length, stand for all of them.
Catalogue == << "A", "B", "C", "D" >>
ParcelLists == { SubSeq(Catalogue, 1, n) : n \in 0..MaxParcels }
\* Cookies a site sets in answer to a request of the HTTP channel / of the
\* browser channel.
HttpCookies == {"h"}
BrowserCookies == {"b"}

VARIABLES
    kind,         \* the driver class under execution
    parcel_ids,   \* scrape()'s argument
    pc,           \* position inside scrape()
    i,            \* 1-based index of the parcel in process (0: before the loop)
    results,      \* scrape()'s local list `results`
    cur,          \* the locals of the per-parcel body (result, property_id, ...)
    raising,      \* an exception is propagating out of scrape()
    outcome,      \* how scrape() ended: "running", "returned", "raised"
    httpJar,      \* self.session.cookies
    cookies,      \* LaCrosseScraper.self.cookies
    browserJar,   \* the browser's cookie jar
    driver,       \* self.driver: "null" or "chrome"
    browser,      \* the OS browser process: "none", "running", "quit"
    tokens,       \* BrownCountyScraper.self.tokens
    trace,        \* history: the protocol steps run for the parcel in process
    reqs,         \* history: the requests the last step issued
    setupFailed,  \* history: a transport failure hit channel setup
    lastStep,     \* history: the token exchange of the last Brown County step
    scraped_results,  \* normalize_scraped_data()'s argument
    installments, \* TaxDataNormalizer.self.installments
    properties,   \* TaxDataNormalizer.self.properties
    tax_periods,  \* TaxDataNormalizer.self.tax_periods
    delinquent_taxes,    \* TaxDataNormalizer.self.delinquent_taxes
    penalties_interest,  \* TaxDataNormalizer.self.penalties_interest
    given,        \* history: the argument as it was when the call began
    normalized_data,  \* what the last scrape_county() returned
    value,        \* the string handed to a coercion function
    coerced,      \* what the coercion function returned
    locate        \* the loop over the selectors of one locate step

vars == << kind, parcel_ids, pc, i, results, cur, raising, outcome, httpJar,
           cookies, browserJar, driver, browser, tokens, trace, reqs,
           setupFailed, lastStep, scraped_results, installments, properties,
           tax_periods, delinquent_taxes, penalties_interest, given,
           normalized_data, value, coerced, locate >>

\* The tables of a TaxDataNormalizer.
tableVars == << installments, properties, tax_periods, delinquent_taxes,
                penalties_interest >>

\* The variables of the field coercion functions.
coerceVars == << value, coerced >>

\* The variables of the normalizer and of its callers.
normVars == << scraped_results, tableVars, given, normalized_data,
               coerceVars, locate >>

\* The variables of the driver object and of its channels.
objVars == << httpJar, cookies, browserJar, driver, browser, tokens >>

Null == "null"

\* All sequences over S of length at most n.
SeqsUpTo(S, n) == UNION { [1..k -> S] : k \in 0..n }

\* The five tables, all empty: a TaxDataNormalizer after __init__().
NoTables ==
    [ properties |-> << >>, tax_periods |-> << >>, installments |-> << >>,
      delinquent_taxes |-> << >>, penalties_interest |-> << >> ]

\* No coercion function has been called.
NotCoerced == [ fn |-> "none" ]

\* No locate step is under way.
NotLocating == [ step |-> Null ]

\* A fresh normalizer that has not been called, and no coercion under way.
NormIdle ==
    /\ scraped_results = << >>
    /\ given = << >>
    /\ installments = << >>
    /\ properties = << >>
    /\ tax_periods = << >>
    /\ delinquent_taxes = << >>
    /\ penalties_interest = << >>
    /\ normalized_data = NoTables
    /\ value = << >>
    /\ coerced = NotCoerced
    /\ locate = NotLocating

\* ------------------------------------------------------------- histories
\* A request of `step` on channel `chan`, issued with cookie jar `jar`:
\* `missing` are the cookies the other channel acquired and `jar` lacks.
RequestAt(step, chan, jar, other) ==
    [ step |-> step, chan |-> chan,
      missing |-> IF chan = "http"
                  THEN (other \cap BrowserCookies) \ jar
                  ELSE (other \cap HttpCookies) \ jar ]

\* The same, when the other channel's jar is the one of the current state.
Request(step, chan, jar) ==
    RequestAt(step, chan, jar, IF chan = "http" THEN browserJar ELSE httpJar)

\* A protocol step of parcel p that has finished, successfully or not.
Event(p, step, ok) == [ p |-> p, step |-> step, ok |-> ok ]


\* ======================================================================
\* LaCrosseScraper (src/lacrosse_scraper.py): the public step methods.
\* Each operator is the effect of one call on the object and its channels;
\* its parameters are the environment's answer.
\* ======================================================================

\* What a search POST can answer (search_property_api returns it as
\* search_data): "no_id" a payload from which no property id can be read
\* (HTML, a JSON list, an empty or id-less 'data'), "data_null" a JSON object
\* whose 'data' is null, "id" a JSON object whose result carries PropertyId.
SearchResponses == {"no_id", "data_null", "id"}
\* The property id carried by the API result / by the browser's result row.
ApiPropertyId == "P1"
RowPropertyId == "P2"

\* get_cookies(): GET /login on the HTTP channel; self.cookies becomes the
\* session's cookies; a failure is re-raised.
LC_get_cookies(ok, nc) ==
    /\ reqs' = { Request("acquire_session", "http", httpJar) }
    /\ httpJar' = IF ok THEN httpJar \cup nc ELSE httpJar
    /\ cookies' = IF ok THEN httpJar \cup nc ELSE cookies
    /\ trace' = Append(trace, Event(i, "acquire_session", ok))
    /\ UNCHANGED << browserJar, driver, browser, tokens >>

\* setup_selenium(): starts Chrome only when self.driver is None.
LC_setup_selenium(started) ==
    IF driver = Null /\ started THEN "chrome" ELSE driver

GuestLoginOutcomes == {"no_browser", "nav_error", "no_button", "ok"}

\* guest_login_selenium(): start the browser if needed, open the login page
\* (which only establishes the domain for add_cookie), copy self.cookies to
\* the browser, refresh, click "Accept and Sign In", copy the browser's
\* cookies back to the session and to self.cookies.  Every failure is
\* re-raised.
LC_guest_login_selenium(o, nc) ==
    LET d == LC_setup_selenium(o # "no_browser")
        injected == browserJar \cup cookies
        after == injected \cup nc
    IN  /\ driver' = d
        /\ browser' = IF d = "chrome" THEN "running" ELSE browser
        /\ reqs' = IF o \in {"no_button", "ok"}
                   THEN { Request("gate", "browser", injected) } ELSE {}
        /\ browserJar' = CASE o = "ok" -> after
                           [] o = "no_button" -> injected
                           [] OTHER -> browserJar
        /\ httpJar' = IF o = "ok" THEN httpJar \cup after ELSE httpJar
        /\ cookies' = IF o = "ok" THEN cookies \cup after ELSE cookies
        /\ trace' = Append(trace, Event(i, "gate", o = "ok"))
        /\ UNCHANGED tokens

\* search_property_api(): POST the search form on the HTTP channel; the
\* response may set a cookie on the session (self.cookies is not touched).
LC_search_property_api(r, nc) ==
    /\ reqs' = { Request("search", "http", httpJar) }
    /\ httpJar' = IF r # "error" THEN httpJar \cup nc ELSE httpJar
    /\ trace' = Append(trace, Event(i, "search", r # "error"))
    /\ UNCHANGED << cookies, browserJar, driver, browser, tokens >>

SeleniumSearchOutcomes == {"error", "no_rows", "row_no_id", "row_id"}

\* search_property_selenium(): raises at once when self.driver is None;
\* otherwise opens the search page in the browser, fills the form, clicks,
\* reads the first result row and copies the browser's cookies to the
\* session.  "error" is any failure of the form interaction (re-raised,
\* before the cookies are copied).
LC_search_property_selenium(o, nc) ==
    IF driver = Null
    THEN /\ reqs' = {}
         /\ UNCHANGED << httpJar, cookies, browserJar, driver, browser,
                         tokens, trace >>
    ELSE LET after == IF o = "error" THEN browserJar ELSE browserJar \cup nc
         IN /\ reqs' = { Request("search", "browser", browserJar) }
            /\ browserJar' = after
            /\ httpJar' = IF o = "error" THEN httpJar ELSE httpJar \cup after
            /\ cookies' = IF o = "error" THEN cookies ELSE cookies \cup after
            /\ trace' = Append(trace, Event(i, "search", o # "error"))
            /\ UNCHANGED << driver, browser, tokens >>

\* The dictionary search_property_selenium returns.
SeleniumResult(o) ==
    [ row_element |-> IF o \in {"row_no_id", "row_id"} THEN "row" ELSE Null,
      property_id |-> IF o = "row_id" THEN RowPropertyId ELSE Null ]

\* find_row_by_property_id(): looks the row up by id in the browser, going
\* to the search page first when the browser is elsewhere; returns None on
\* every failure.
LC_find_row_by_property_id(nav) ==
    /\ reqs' = IF driver # Null /\ nav
               THEN { Request("resolve", "browser", browserJar) } ELSE {}
    /\ UNCHANGED << httpJar, cookies, browserJar, driver, browser, tokens >>

\* click_row_and_navigate_to_taxes(): click the row, then the Taxes tab.
LC_click_row_and_navigate_to_taxes(ok, nc) ==
    /\ reqs' = { Request("navigate", "browser", browserJar) }
    /\ browserJar' = IF ok THEN browserJar \cup nc ELSE browserJar
    /\ trace' = Append(trace, Event(i, "navigate", ok))
    /\ UNCHANGED << httpJar, cookies, driver, browser, tokens >>

\* navigate_directly_to_taxes(): driver.get of the tax-view URL.
LC_navigate_directly_to_taxes(ok, nc) ==
    /\ reqs' = { Request("navigate", "browser", browserJar) }
    /\ browserJar' = IF ok THEN browserJar \cup nc ELSE browserJar
    /\ trace' = Append(trace, Event(i, "navigate", ok))
    /\ UNCHANGED << httpJar, cookies, driver, browser, tokens >>

\* extract_installments_and_unpaid_taxes(): reads driver.page_source (which
\* may raise) and parses its tables (whose errors are swallowed).
LC_extract_installments_and_unpaid_taxes(ok) ==
    /\ reqs' = {}
    /\ trace' = Append(trace, Event(i, "extract", ok))
    /\ UNCHANGED objVars

\* get_tax_info(): POST the tax request on the HTTP channel.
LC_get_tax_info(ok, nc) ==
    /\ reqs' = { Request("extract", "http", httpJar) }
    /\ httpJar' = IF ok THEN httpJar \cup nc ELSE httpJar
    /\ trace' = Append(trace, Event(i, "extract", ok))
    /\ UNCHANGED << cookies, browserJar, driver, browser, tokens >>

\* A variant of cleanup() that leaves the browser running.
CleanupWithoutQuit ==
    UNCHANGED << browser, driver >>

\* cleanup(): quit the browser when self.driver is set, and clear it.
LC_cleanup ==
    /\ browser' = IF driver # Null THEN "quit" ELSE browser
    /\ driver' = Null

\* ======================================================================
\* LaCrosseScraper.scrape(parcel_ids): one action per call it makes,
\* together with the local code that follows the call.
\* ======================================================================

\* The locals of the per-parcel body: `result` as built at the top of the
\* loop body, property_id, selenium_result, row_element, page_tax_info;
\* `failed` is history: the steps that failed for this parcel.
NewCur(p) ==
    [ result |-> [ parcel_id |-> p, search_data |-> Null,
                   tax_data |-> Null, error |-> Null ],
      property_id |-> Null,
      selenium_result |-> [ row_element |-> Null, property_id |-> Null ],
      row_element |-> Null,
      page_tax_info |-> Null,
      failed |-> {} ]

NoCur == NewCur(Null)

\* The steps that belong to the run, not to one parcel.
RunLevel(t) == SelectSeq(t, LAMBDA e : e.p = 0)

\* Lines 884-961: the property id read from the API search result.  A JSON
\* object whose 'data' is null makes len() raise TypeError.
ParseApiPropertyId(r) ==
    CASE r = "id" -> ApiPropertyId
      [] r = "data_null" -> "raise"
      [] OTHER -> Null

\* A variant of the choice of lines 975-980 in which the id of the API
\* result wins over the id of the browser's result row.
ApiFirstPropertyId(row_property_id, api_property_id) ==
    IF api_property_id # Null THEN api_property_id ELSE row_property_id

\* Lines 975-980: the id of the browser's result row wins over the API's.
ChoosePropertyId(row_property_id, api_property_id) ==
    IF row_property_id # Null THEN row_property_id ELSE api_property_id

\* A variant of the test of line 995 that lets the tax steps run without a
\* property id.
AnyPropertyId(property_id) == TRUE

\* Line 995: the tax steps run only with a property id.
HasPropertyId(property_id) == property_id # Null

\* Lines 1028-1048: how the two tax sources are combined into tax_data.
CombineTaxData(page_tax_info, api_ok, old) ==
    CASE api_ok /\ page_tax_info # Null -> "page_and_api"
      [] api_ok /\ page_tax_info = Null -> "api_only"
      [] ~api_ok /\ page_tax_info # Null -> "page_only"
      [] OTHER -> old

\* Lines 859-861.
S_LC_GetCookies ==
    /\ kind = "lacrosse" /\ pc = "get_cookies"
    /\ \E ok \in BOOLEAN, nc \in SUBSET HttpCookies :
          /\ ~ok => nc = {}
          /\ LC_get_cookies(ok, nc)
          /\ pc' = IF ok THEN "guest_login" ELSE "cleanup"
          /\ raising' = ~ok
          /\ setupFailed' = (setupFailed \/ ~ok)
    /\ UNCHANGED << normVars, kind, parcel_ids, i, results, cur, outcome, lastStep >>

\* Lines 863-877: the gate, then the head of the loop.
S_LC_GuestLogin ==
    /\ kind = "lacrosse" /\ pc = "guest_login"
    /\ \E o \in GuestLoginOutcomes, nc \in SUBSET BrowserCookies :
          /\ o # "ok" => nc = {}
          /\ LC_guest_login_selenium(o, nc)
          /\ raising' = (o # "ok")
          /\ setupFailed' = (setupFailed \/ o \in {"no_browser", "nav_error"})
          /\ IF o = "ok" /\ Len(parcel_ids) > 0
             THEN /\ pc' = "search_api"
                  /\ i' = 1
                  /\ cur' = NewCur(parcel_ids[1])
             ELSE /\ pc' = "cleanup"
                  /\ UNCHANGED << i, cur >>
    /\ UNCHANGED << normVars, kind, parcel_ids, results, outcome, lastStep >>

\* Lines 879-961: the API search and the reading of its result.
S_LC_SearchApi ==
    /\ kind = "lacrosse" /\ pc = "search_api"
    /\ \E r \in SearchResponses \cup {"error"}, nc \in SUBSET HttpCookies :
          /\ r = "error" => nc = {}
          /\ LC_search_property_api(r, nc)
          /\ CASE r = "error" ->
                    /\ cur' = [cur EXCEPT !.result.error = "search_error",
                                          !.failed = @ \cup {"search"}]
                    /\ pc' = "append"
               [] r # "error" /\ ParseApiPropertyId(r) = "raise" ->
                    /\ cur' = [cur EXCEPT !.result.search_data = r,
                                          !.result.error = "TypeError",
                                          !.failed = @ \cup {"resolve"}]
                    /\ pc' = "append"
               [] OTHER ->
                    /\ cur' = [cur EXCEPT !.result.search_data = r,
                                          !.property_id = ParseApiPropertyId(r)]
                    /\ pc' = "search_selenium"
    /\ UNCHANGED << normVars, kind, parcel_ids, i, results, raising, outcome,
                    setupFailed, lastStep >>

\* Lines 963-973: the browser search; its failure is only printed.
S_LC_SearchSelenium ==
    /\ kind = "lacrosse" /\ pc = "search_selenium"
    /\ \E o \in SeleniumSearchOutcomes, nc \in SUBSET BrowserCookies :
          LET eff == IF driver = Null THEN "error" ELSE o
          IN /\ eff = "error" => nc = {}
             /\ LC_search_property_selenium(o, nc)
             /\ cur' = [cur EXCEPT !.selenium_result = SeleniumResult(eff),
                                   !.failed = IF eff = "error"
                                              THEN @ \cup {"search"} ELSE @]
    /\ pc' = "resolve"
    /\ UNCHANGED << normVars, kind, parcel_ids, i, results, raising, outcome,
                    setupFailed, lastStep >>

\* Lines 975-995: choose the property id, take the row of the browser search
\* or look it up by id, and branch on the property id.
S_LC_Resolve ==
    /\ kind = "lacrosse" /\ pc = "resolve"
    /\ LET pid == ChoosePropertyId(cur.selenium_result.property_id,
                                   cur.property_id)
           row == cur.selenium_result.row_element
       IN \E found \in BOOLEAN, nav \in BOOLEAN :
            /\ IF pid # Null /\ row = Null
               THEN LC_find_row_by_property_id(nav)
               ELSE /\ ~found /\ ~nav
                    /\ reqs' = {}
                    /\ UNCHANGED objVars
            /\ cur' = [cur EXCEPT
                         !.property_id = pid,
                         !.row_element = IF found THEN "row" ELSE row,
                         !.failed = IF pid = Null
                                    THEN @ \cup {"resolve"} ELSE @]
            /\ trace' = Append(trace, Event(i, "resolve", pid # Null))
            /\ pc' = IF ~HasPropertyId(pid) THEN "append"
                     ELSE IF row # Null \/ found THEN "click_row"
                     ELSE "direct_nav"
    /\ UNCHANGED << normVars, kind, parcel_ids, i, results, raising, outcome,
                    setupFailed, lastStep >>

\* Lines 999-1002: the row click and the Taxes tab.
S_LC_ClickRow ==
    /\ kind = "lacrosse" /\ pc = "click_row"
    /\ \E ok \in BOOLEAN, nc \in SUBSET BrowserCookies :
          /\ ~ok => nc = {}
          /\ LC_click_row_and_navigate_to_taxes(ok, nc)
          /\ pc' = IF ok THEN "extract_click" ELSE "direct_nav"
          /\ cur' = [cur EXCEPT !.failed = IF ok THEN @
                                           ELSE @ \cup {"navigate"}]
    /\ UNCHANGED << normVars, kind, parcel_ids, i, results, raising, outcome,
                    setupFailed, lastStep >>

\* Lines 1004-1009: page extraction after the click; its failure falls to
\* the same handler as a failed click.
S_LC_ExtractAfterClick ==
    /\ kind = "lacrosse" /\ pc = "extract_click"
    /\ \E ok \in BOOLEAN :
          /\ LC_extract_installments_and_unpaid_taxes(ok)
          /\ pc' = IF ok THEN "get_tax_info" ELSE "direct_nav"
          /\ cur' = [cur EXCEPT !.page_tax_info = IF ok THEN "page" ELSE @,
                                !.failed = IF ok THEN @
                                           ELSE @ \cup {"extract"}]
    /\ UNCHANGED << normVars, kind, parcel_ids, i, results, raising, outcome,
                    setupFailed, lastStep >>

\* Lines 1010-1011 and 1016-1019: direct navigation to the tax view.
S_LC_DirectNav ==
    /\ kind = "lacrosse" /\ pc = "direct_nav"
    /\ \E ok \in BOOLEAN, nc \in SUBSET BrowserCookies :
          /\ ~ok => nc = {}
          /\ LC_navigate_directly_to_taxes(ok, nc)
          /\ pc' = IF ok THEN "extract_direct" ELSE "get_tax_info"
          /\ cur' = [cur EXCEPT !.failed = IF ok THEN @
                                           ELSE @ \cup {"navigate"}]
    /\ UNCHANGED << normVars, kind, parcel_ids, i, results, raising, outcome,
                    setupFailed, lastStep >>

\* Lines 1012-1014 and 1020-1022: page extraction after direct navigation.
S_LC_ExtractAfterDirect ==
    /\ kind = "lacrosse" /\ pc = "extract_direct"
    /\ \E ok \in BOOLEAN :
          /\ LC_extract_installments_and_unpaid_taxes(ok)
          /\ cur' = [cur EXCEPT !.page_tax_info = IF ok THEN "page" ELSE @,
                                !.failed = IF ok THEN @
                                           ELSE @ \cup {"extract"}]
    /\ pc' = "get_tax_info"
    /\ UNCHANGED << normVars, kind, parcel_ids, i, results, raising, outcome,
                    setupFailed, lastStep >>

\* Lines 1024-1048: the API tax request and the combination of the sources.
S_LC_GetTaxInfo ==
    /\ kind = "lacrosse" /\ pc = "get_tax_info"
    /\ \E ok \in BOOLEAN, nc \in SUBSET HttpCookies :
          /\ ~ok => nc = {}
          /\ LC_get_tax_info(ok, nc)
          /\ cur' = [cur EXCEPT
                       !.result.tax_data =
                           CombineTaxData(cur.page_tax_info, ok, @),
                       !.failed = IF ok THEN @ ELSE @ \cup {"extract"}]
    /\ pc' = "append"
    /\ UNCHANGED << normVars, kind, parcel_ids, i, results, raising, outcome,
                    setupFailed, lastStep >>

\* A variant of the loop without the per-parcel handler: a parcel's error
\* leaves the loop and propagates to the caller of scrape().
AppendOrAbort ==
    /\ kind = "lacrosse" /\ pc = "append"
    /\ reqs' = {}
    /\ trace' = RunLevel(trace)
    /\ IF cur.result.error # Null
       THEN /\ raising' = TRUE
            /\ pc' = "cleanup"
            /\ UNCHANGED << i, cur, results >>
       ELSE /\ results' = Append(results, cur.result)
            /\ raising' = raising
            /\ IF i < Len(parcel_ids)
               THEN /\ i' = i + 1
                    /\ cur' = NewCur(parcel_ids[i + 1])
                    /\ pc' = "search_api"
               ELSE /\ pc' = "cleanup"
                    /\ UNCHANGED << i, cur >>
    /\ UNCHANGED << normVars, kind, parcel_ids, outcome, setupFailed, lastStep,
                    objVars >>

\* Lines 1052-1062: whatever happened, the bundle is appended and the loop
\* goes on; after the last parcel scrape() returns.
S_LC_Append ==
    /\ kind = "lacrosse" /\ pc = "append"
    /\ results' = Append(results, cur.result)
    /\ reqs' = {}
    /\ trace' = RunLevel(trace)
    /\ IF i < Len(parcel_ids)
       THEN /\ i' = i + 1
            /\ cur' = NewCur(parcel_ids[i + 1])
            /\ pc' = "search_api"
       ELSE /\ pc' = "cleanup"
            /\ UNCHANGED << i, cur >>
    /\ UNCHANGED << normVars, kind, parcel_ids, raising, outcome, setupFailed,
                    lastStep, objVars >>

\* Lines 1064-1068: the finally clause.
S_LC_Cleanup ==
    /\ kind = "lacrosse" /\ pc = "cleanup"
    /\ LC_cleanup
    /\ pc' = "exited"
    /\ outcome' = IF raising THEN "raised" ELSE "returned"
    /\ reqs' = {}
    /\ UNCHANGED << normVars, kind, parcel_ids, i, results, cur, raising, httpJar,
                    cookies, browserJar, tokens, trace, setupFailed,
                    lastStep >>

LaCrosseScrape ==
    \/ S_LC_GetCookies
    \/ S_LC_GuestLogin
    \/ S_LC_SearchApi
    \/ S_LC_SearchSelenium
    \/ S_LC_Resolve
    \/ S_LC_ClickRow
    \/ S_LC_ExtractAfterClick
    \/ S_LC_DirectNav
    \/ S_LC_ExtractAfterDirect
    \/ S_LC_GetTaxInfo
    \/ S_LC_Append
    \/ S_LC_Cleanup

\* ======================================================================
\* BrownCountyScraper (src/scraper.py): tokens and the public step methods.
\* ======================================================================

\* The hidden fields followed here, out of those extract_aspnet_tokens looks
\* for: the primary anti-forgery token and the event validation token.
TokenNames == {"__VIEWSTATE", "__EVENTVALIDATION"}
TokenValues(n) == IF n = "__VIEWSTATE" THEN {"v1", "v2"} ELSE {"e1"}

\* extract_aspnet_tokens(html): a response is the hidden fields its HTML
\* holds; a field that is absent (Null) gets no key in the dictionary.
Responses == { r \in [TokenNames -> {"v1", "v2", "e1", Null}] :
                 \A n \in TokenNames : r[n] \in TokenValues(n) \cup {Null} }

\* The dictionary {} : no key present.
NoTokens == [n \in TokenNames |-> Null]

\* dict.update(new_tokens): the keys of new_tokens overwrite, the others stay.
dict_update(old, new) ==
    [n \in TokenNames |-> IF new[n] # Null THEN new[n] ELSE old[n]]

\* `if not tokens`: the empty dictionary is false.
IsEmptyDict(t) == \A n \in TokenNames : t[n] = Null

\* The previous token set updated with the tokens of each response of a
\* step, in the order received.
RECURSIVE MergeAll(_, _)
MergeAll(prev, resps) ==
    IF resps = << >> THEN prev
    ELSE MergeAll(dict_update(prev, Head(resps)), Tail(resps))

\* History of one step: the token set before it updated with every response
\* the step received.
StepRecord(name, prev, resps) ==
    [ name |-> name, merged |-> MergeAll(prev, resps) ]

NoStep == StepRecord(Null, NoTokens, << >>)

\* _init_selenium(): starts Chrome only when self.driver is None, and only
\* then copies the session's cookies to the browser.
BC_init_selenium(jar) ==
    IF driver = Null THEN browserJar \cup jar ELSE browserJar

\* _close_selenium(): quit the browser when self.driver is set, clear it.
BC_close_selenium ==
    /\ browser' = IF driver # Null THEN "quit" ELSE browser
    /\ driver' = Null

\* get_cookie(): GET Search.aspx; self.tokens is set to the tokens of the
\* response.  A RequestException is printed and {} is returned.
BC_get_cookie(ok, resp, nc) ==
    /\ reqs' = { Request("acquire_session", "http", httpJar) }
    /\ tokens' = IF ok THEN resp ELSE tokens
    /\ httpJar' = IF ok THEN httpJar \cup nc ELSE httpJar
    /\ lastStep' = StepRecord("get_cookie", tokens,
                              IF ok THEN << resp >> ELSE << >>)
    /\ trace' = Append(trace, Event(i, "acquire_session", ok))
    /\ UNCHANGED << cookies, browserJar, driver, browser >>

\* What get_cookie returns.
BC_get_cookie_result(ok, resp) == IF ok THEN resp ELSE NoTokens

AcceptTermsOutcomes ==
    {"post_error", "no_browser", "nav_error", "no_button", "ok"}

\* accept_terms(): POST the form with "I Accept" and merge the tokens of the
\* response; start the browser if needed, open the page, copy the browser's
\* cookies to the session; click the accept button and merge the tokens of
\* the new page.  A RequestException and a missing button are printed; a
\* browser that cannot start or navigate raises.
BC_accept_terms(o, r1, r2, nch, ncb) ==
    LET posted == o # "post_error"
        started == posted /\ o # "no_browser"
        opened == o \in {"no_button", "ok"}
        t1 == IF posted THEN dict_update(tokens, r1) ELSE tokens
        h1 == IF posted THEN httpJar \cup nch ELSE httpJar
        b1 == IF started THEN BC_init_selenium(h1) ELSE browserJar
        b2 == IF opened THEN b1 \cup ncb ELSE b1
    IN  /\ o = "no_browser" => driver = Null
        /\ reqs' = { Request("gate", "http", httpJar) } \cup
                   (IF started
                    THEN { RequestAt("gate", "browser", b1, h1) } ELSE {})
        /\ tokens' = IF o = "ok" THEN dict_update(t1, r2) ELSE t1
        /\ httpJar' = IF opened THEN h1 \cup b2 ELSE h1
        /\ browserJar' = b2
        /\ driver' = IF started THEN "chrome" ELSE driver
        /\ browser' = IF started THEN "running" ELSE browser
        /\ lastStep' = StepRecord("accept_terms", tokens,
                           CASE o = "ok" -> << r1, r2 >>
                             [] posted -> << r1 >>
                             [] OTHER -> << >>)
        /\ trace' = Append(trace, Event(i, "gate", o = "ok"))
        /\ UNCHANGED cookies

SearchPropertyOutcomes == {"post_error", "selenium_timeout", "ok"}

\* search_property(): POST the search form and merge the tokens of the
\* response; when a browser exists, open the search page there unless it is
\* the current one (and then copy the browser's cookies to the session),
\* fill the form, click, and merge the tokens of the result page.  Failures
\* are printed.
BC_search_property(o, r1, r2, nch, onSearchPage) ==
    LET posted == o # "post_error"
        inBrowser == posted /\ driver # Null
        t1 == IF posted THEN dict_update(tokens, r1) ELSE tokens
        h1 == IF posted THEN httpJar \cup nch ELSE httpJar
    IN  /\ reqs' = { Request("search", "http", httpJar) } \cup
                   (IF inBrowser
                    THEN { RequestAt("search", "browser", browserJar, h1) }
                    ELSE {})
        /\ tokens' = IF inBrowser /\ o = "ok" THEN dict_update(t1, r2) ELSE t1
        /\ httpJar' = IF inBrowser /\ ~onSearchPage
                      THEN h1 \cup browserJar ELSE h1
        /\ lastStep' = StepRecord("search_property", tokens,
                           CASE inBrowser /\ o = "ok" -> << r1, r2 >>
                             [] posted -> << r1 >>
                             [] OTHER -> << >>)
        /\ trace' = Append(trace, Event(i, "search", posted))
        /\ UNCHANGED << cookies, browserJar, driver, browser >>

TaxInfoOutcomes == {"no_browser", "no_link", "post_error", "ok"}

\* get_tax_info(): start the browser if there is none; click the taxes link
\* (or post back by script) and merge the tokens of the page; POST the tax
\* form and parse the answer, whose tokens are not read.  Returns the tax
\* data, or {'Error': ...} when the link cannot be clicked or the POST
\* fails; a browser that cannot start raises.
BC_get_tax_info(o, r1, r2) ==
    LET started == o # "no_browser"
        clicked == o \in {"post_error", "ok"}
        b1 == IF started THEN BC_init_selenium(httpJar) ELSE browserJar
        t1 == IF clicked THEN dict_update(tokens, r1) ELSE tokens
    IN  /\ o = "no_browser" => driver = Null
        /\ reqs' = (IF started
                    THEN { RequestAt("extract", "browser", b1, httpJar) }
                    ELSE {})
                   \cup (IF clicked
                         THEN { RequestAt("extract", "http",
                                  IF driver = Null THEN httpJar \cup b1
                                  ELSE httpJar, b1) }
                         ELSE {})
        /\ tokens' = t1
        /\ browserJar' = b1
        /\ httpJar' = IF started /\ driver = Null
                      THEN httpJar \cup b1 ELSE httpJar
        /\ driver' = IF started THEN "chrome" ELSE driver
        /\ browser' = IF started THEN "running" ELSE browser
        /\ lastStep' = StepRecord("get_tax_info", tokens,
                           CASE o = "ok" -> << r1, r2 >>
                             [] clicked -> << r1 >>
                             [] OTHER -> << >>)
        /\ trace' = Append(trace, Event(i, "extract", o = "ok"))
        /\ UNCHANGED cookies

\* ----------------------------------------------------------------------
\* BrownCountyScraper.scrape() and scrape_parcel(), one action per step.
\* ----------------------------------------------------------------------

\* Line 1184: any exception inside scrape_parcel becomes an error bundle.
UnexpectedError(c, step) ==
    [c EXCEPT !.result.error = "unexpected_error",
              !.failed = @ \cup {step}]

\* Lines 1198-1202: the head of the loop takes the next parcel, or leaves.
S_BC_Next ==
    /\ kind = "brown" /\ pc = "bc_next"
    /\ IF i < Len(parcel_ids)
       THEN /\ i' = i + 1
            /\ cur' = NewCur(parcel_ids[i + 1])
            /\ pc' = "bc_get_cookie"
       ELSE /\ pc' = "bc_close"
            /\ UNCHANGED << i, cur >>
    /\ reqs' = {}
    /\ UNCHANGED << normVars, kind, parcel_ids, results, raising, outcome, trace,
                    setupFailed, lastStep, objVars >>

\* Lines 1133-1135: step 1; an empty token dictionary ends the parcel.
S_BC_GetCookie ==
    /\ kind = "brown" /\ pc = "bc_get_cookie"
    /\ \E ok \in BOOLEAN, resp \in Responses, nc \in SUBSET HttpCookies :
          /\ ~ok => resp = NoTokens /\ nc = {}
          /\ BC_get_cookie(ok, resp, nc)
          /\ setupFailed' = (setupFailed \/ ~ok)
          /\ IF IsEmptyDict(BC_get_cookie_result(ok, resp))
             THEN /\ cur' = [cur EXCEPT
                               !.result.error = "no_initial_cookies",
                               !.failed = @ \cup {"acquire_session"}]
                  /\ pc' = "bc_append"
             ELSE /\ pc' = "bc_accept_terms"
                  /\ UNCHANGED cur
    /\ UNCHANGED << normVars, kind, parcel_ids, i, results, raising, outcome >>

\* Line 1139: step 2.
S_BC_AcceptTerms ==
    /\ kind = "brown" /\ pc = "bc_accept_terms"
    /\ \E o \in AcceptTermsOutcomes, r1 \in Responses, r2 \in Responses,
          nch \in SUBSET HttpCookies, ncb \in SUBSET BrowserCookies :
          /\ o = "post_error" => r1 = NoTokens /\ nch = {}
          /\ o # "ok" => r2 = NoTokens
          /\ o \notin {"no_button", "ok"} => ncb = {}
          /\ BC_accept_terms(o, r1, r2, nch, ncb)
          /\ setupFailed' =
                (setupFailed \/ o \in {"post_error", "no_browser", "nav_error"})
          /\ IF o \in {"no_browser", "nav_error"}
             THEN /\ cur' = UnexpectedError(cur, "gate")
                  /\ pc' = "bc_append"
             ELSE /\ cur' = [cur EXCEPT !.failed =
                               IF o = "ok" THEN @ ELSE @ \cup {"gate"}]
                  /\ pc' = "bc_search_property"
    /\ UNCHANGED << normVars, kind, parcel_ids, i, results, raising, outcome >>

\* Line 1143: step 3.
S_BC_SearchProperty ==
    /\ kind = "brown" /\ pc = "bc_search_property"
    /\ \E o \in SearchPropertyOutcomes, r1 \in Responses, r2 \in Responses,
          nch \in SUBSET HttpCookies, onSearchPage \in BOOLEAN :
          /\ o = "selenium_timeout" => driver # Null
          /\ o = "post_error" => r1 = NoTokens /\ nch = {}
          /\ (o # "ok" \/ driver = Null) => r2 = NoTokens
          /\ (o = "post_error" \/ driver = Null) => onSearchPage
          /\ BC_search_property(o, r1, r2, nch, onSearchPage)
          /\ cur' = [cur EXCEPT !.failed =
                       IF o = "ok" THEN @ ELSE @ \cup {"search"}]
    /\ pc' = "bc_get_tax_info"
    /\ UNCHANGED << normVars, kind, parcel_ids, i, results, raising, outcome,
                    setupFailed >>

\* Lines 1147-1181: step 4 and the bundle built from its answer.
S_BC_GetTaxInfo ==
    /\ kind = "brown" /\ pc = "bc_get_tax_info"
    /\ \E o \in TaxInfoOutcomes, r1 \in Responses, r2 \in Responses :
          /\ o \notin {"post_error", "ok"} => r1 = NoTokens
          /\ o # "ok" => r2 = NoTokens
          /\ BC_get_tax_info(o, r1, r2)
          /\ cur' = CASE o = "no_browser" -> UnexpectedError(cur, "extract")
                      [] o = "ok" -> [cur EXCEPT !.result.tax_data = "tax_data"]
                      [] OTHER -> [cur EXCEPT !.result.error = "tax_error",
                                              !.failed = @ \cup {"extract"}]
    /\ pc' = "bc_append"
    /\ UNCHANGED << normVars, kind, parcel_ids, i, results, raising, outcome,
                    setupFailed >>

\* Line 1203: the bundle scrape_parcel returned is appended.
S_BC_Append ==
    /\ kind = "brown" /\ pc = "bc_append"
    /\ results' = Append(results, cur.result)
    /\ reqs' = {}
    /\ trace' = RunLevel(trace)
    /\ lastStep' = NoStep
    /\ pc' = "bc_next"
    /\ UNCHANGED << normVars, kind, parcel_ids, i, cur, raising, outcome, setupFailed,
                    objVars >>

\* Lines 1205-1209: the finally clause, then the return.
S_BC_Close ==
    /\ kind = "brown" /\ pc = "bc_close"
    /\ BC_close_selenium
    /\ pc' = "exited"
    /\ outcome' = IF raising THEN "raised" ELSE "returned"
    /\ reqs' = {}
    /\ UNCHANGED << normVars, kind, parcel_ids, i, results, cur, raising, httpJar,
                    cookies, browserJar, tokens, trace, setupFailed,
                    lastStep >>

BrownScrape ==
    \/ S_BC_Next
    \/ S_BC_GetCookie
    \/ S_BC_AcceptTerms
    \/ S_BC_SearchProperty
    \/ S_BC_GetTaxInfo
    \/ S_BC_Append
    \/ S_BC_Close

\* ======================================================================
\* Website1Scraper (src/scraper.py): HTTP only, one action per parcel.
\* ======================================================================

W1SearchOutcomes ==
    {"error", "empty", "unparsable", "no_results", "no_parcel_id", "id"}
W1TaxOutcomes == {"error", "empty", "unparsable", "ok"}

\* search_parcels() logs in first when the session holds no cookie.
W1_needs_login == httpJar = {}

\* scrape_parcel(): the bundle returned for each answer of the search and of
\* the tax bill request; every exception becomes an error bundle.
W1_scrape_parcel(p, s, t) ==
    [ parcel_id |-> p,
      search_data |-> IF s = "id" THEN "search_data" ELSE Null,
      tax_data |-> IF s = "id" /\ t = "ok" THEN "tax_data" ELSE Null,
      error |-> CASE s # "id" -> "search_" \o s
                  [] t # "ok" -> "tax_" \o t
                  [] OTHER -> Null ]

\* Lines 310-313: one turn of the loop of scrape().
S_W1_ScrapeParcel ==
    /\ kind = "website1" /\ pc = "w1_next"
    /\ i < Len(parcel_ids)
    /\ \E login_ok \in BOOLEAN, nc \in SUBSET HttpCookies,
          s \in W1SearchOutcomes, t \in W1TaxOutcomes :
          /\ (~W1_needs_login \/ ~login_ok) => nc = {}
          /\ ~W1_needs_login => login_ok
          /\ s # "id" => t = "ok"
          /\ httpJar' = httpJar \cup nc
          /\ setupFailed' = (setupFailed \/ ~login_ok)
          /\ reqs' = (IF W1_needs_login
                      THEN { Request("acquire_session", "http", httpJar) }
                      ELSE {})
                     \cup { RequestAt("search", "http", httpJar \cup nc, {}) }
                     \cup (IF s = "id"
                           THEN { RequestAt("extract", "http",
                                            httpJar \cup nc, {}) }
                           ELSE {})
          /\ results' = Append(results,
                               W1_scrape_parcel(parcel_ids[i + 1], s, t))
    /\ i' = i + 1
    /\ UNCHANGED << normVars, kind, parcel_ids, pc, cur, raising, outcome, cookies,
                    browserJar, driver, browser, tokens, trace, lastStep >>

\* Line 316: the loop is over, scrape() returns the results.
S_W1_Return ==
    /\ kind = "website1" /\ pc = "w1_next"
    /\ i = Len(parcel_ids)
    /\ pc' = "exited"
    /\ outcome' = "returned"
    /\ reqs' = {}
    /\ UNCHANGED << normVars, kind, parcel_ids, i, results, cur, raising, trace,
                    setupFailed, lastStep, objVars >>

Website1Scrape ==
    \/ S_W1_ScrapeParcel
    \/ S_W1_Return

\* ======================================================================
\* The specification of a scrape() run.
\* ======================================================================

\* The first step of each driver's scrape().
StartOf(k) ==
    CASE k = "lacrosse" -> "get_cookies"
      [] k = "brown" -> "bc_next"
      [] OTHER -> "w1_next"

\* A fresh driver object (__init__) and a call of scrape(parcel_ids).
Init ==
    /\ kind \in {"lacrosse", "brown", "website1"}
    /\ parcel_ids \in ParcelLists
    /\ pc = StartOf(kind)
    /\ i = 0
    /\ results = << >>
    /\ cur = NoCur
    /\ raising = FALSE
    /\ outcome = "running"
    /\ httpJar = {}
    /\ cookies = {}
    /\ browserJar = {}
    /\ driver = Null
    /\ browser = "none"
    /\ tokens = NoTokens
    /\ trace = << >>
    /\ reqs = {}
    /\ setupFailed = FALSE
    /\ lastStep = NoStep
    /\ NormIdle

Next ==
    \/ LaCrosseScrape
    \/ BrownScrape
    \/ Website1Scrape

Spec == Init /\ [][Next]_vars

\* ======================================================================
\* The public interface: the step methods of a fresh driver object called
\* directly, in any order, by a caller that catches what they raise.
\* ======================================================================

MaxCalls == 3

\* What a direct call leaves alone: the variables of scrape().
scrapeVars == << kind, parcel_ids, pc, i, results, cur, raising, outcome,
                 setupFailed, normVars >>

A_LC_get_cookies ==
    /\ kind = "lacrosse" /\ pc = "api" /\ Len(trace) < MaxCalls
    /\ \E ok \in BOOLEAN, nc \in SUBSET HttpCookies :
          /\ ~ok => nc = {}
          /\ LC_get_cookies(ok, nc)
    /\ UNCHANGED << scrapeVars, lastStep >>

A_LC_guest_login_selenium ==
    /\ kind = "lacrosse" /\ pc = "api" /\ Len(trace) < MaxCalls
    /\ \E o \in GuestLoginOutcomes, nc \in SUBSET BrowserCookies :
          /\ o = "no_browser" => driver = Null
          /\ o # "ok" => nc = {}
          /\ LC_guest_login_selenium(o, nc)
    /\ UNCHANGED << scrapeVars, lastStep >>

A_LC_search_property_api ==
    /\ kind = "lacrosse" /\ pc = "api" /\ Len(trace) < MaxCalls
    /\ \E r \in SearchResponses \cup {"error"}, nc \in SUBSET HttpCookies :
          /\ r = "error" => nc = {}
          /\ LC_search_property_api(r, nc)
    /\ UNCHANGED << scrapeVars, lastStep >>

A_LC_search_property_selenium ==
    /\ kind = "lacrosse" /\ pc = "api" /\ Len(trace) < MaxCalls
    /\ \E o \in SeleniumSearchOutcomes, nc \in SUBSET BrowserCookies :
          /\ (o = "error" \/ driver = Null) => nc = {}
          /\ LC_search_property_selenium(o, nc)
    /\ UNCHANGED << scrapeVars, lastStep >>

A_LC_get_tax_info ==
    /\ kind = "lacrosse" /\ pc = "api" /\ Len(trace) < MaxCalls
    /\ \E ok \in BOOLEAN, nc \in SUBSET HttpCookies :
          /\ ~ok => nc = {}
          /\ LC_get_tax_info(ok, nc)
    /\ UNCHANGED << scrapeVars, lastStep >>

A_LC_cleanup ==
    /\ kind = "lacrosse" /\ pc = "api"
    /\ driver # Null
    /\ LC_cleanup
    /\ reqs' = {}
    /\ UNCHANGED << scrapeVars, lastStep, httpJar, cookies, browserJar,
                    tokens, trace >>

A_BC_get_cookie ==
    /\ kind = "brown" /\ pc = "api" /\ Len(trace) < MaxCalls
    /\ \E ok \in BOOLEAN, resp \in Responses, nc \in SUBSET HttpCookies :
          /\ ~ok => resp = NoTokens /\ nc = {}
          /\ BC_get_cookie(ok, resp, nc)
    /\ UNCHANGED scrapeVars

A_BC_accept_terms ==
    /\ kind = "brown" /\ pc = "api" /\ Len(trace) < MaxCalls
    /\ \E o \in AcceptTermsOutcomes, r1 \in Responses, r2 \in Responses,
          nch \in SUBSET HttpCookies, ncb \in SUBSET BrowserCookies :
          /\ o = "post_error" => r1 = NoTokens /\ nch = {}
          /\ o # "ok" => r2 = NoTokens
          /\ o \notin {"no_button", "ok"} => ncb = {}
          /\ BC_accept_terms(o, r1, r2, nch, ncb)
    /\ UNCHANGED scrapeVars

A_BC_search_property ==
    /\ kind = "brown" /\ pc = "api" /\ Len(trace) < MaxCalls
    /\ \E o \in SearchPropertyOutcomes, r1 \in Responses, r2 \in Responses,
          nch \in SUBSET HttpCookies, onSearchPage \in BOOLEAN :
          /\ o = "selenium_timeout" => driver # Null
          /\ o = "post_error" => r1 = NoTokens /\ nch = {}
          /\ (o # "ok" \/ driver = Null) => r2 = NoTokens
          /\ (o = "post_error" \/ driver = Null) => onSearchPage
          /\ BC_search_property(o, r1, r2, nch, onSearchPage)
    /\ UNCHANGED scrapeVars

A_BC_get_tax_info ==
    /\ kind = "brown" /\ pc = "api" /\ Len(trace) < MaxCalls
    /\ \E o \in TaxInfoOutcomes, r1 \in Responses, r2 \in Responses :
          /\ o \notin {"post_error", "ok"} => r1 = NoTokens
          /\ o # "ok" => r2 = NoTokens
          /\ BC_get_tax_info(o, r1, r2)
    /\ UNCHANGED scrapeVars

\* A fresh LaCrosseScraper or BrownCountyScraper, no call made yet.
InitAPI ==
    /\ kind \in {"lacrosse", "brown"}
    /\ parcel_ids = << >>
    /\ pc = "api"
    /\ i = 0
    /\ results = << >>
    /\ cur = NoCur
    /\ raising = FALSE
    /\ outcome = "running"
    /\ httpJar = {}
    /\ cookies = {}
    /\ browserJar = {}
    /\ driver = Null
    /\ browser = "none"
    /\ tokens = NoTokens
    /\ trace = << >>
    /\ reqs = {}
    /\ setupFailed = FALSE
    /\ lastStep = NoStep
    /\ NormIdle

NextAPI ==
    \/ A_LC_get_cookies
    \/ A_LC_guest_login_selenium
    \/ A_LC_search_property_api
    \/ A_LC_search_property_selenium
    \/ A_LC_get_tax_info
    \/ A_LC_cleanup
    \/ A_BC_get_cookie
    \/ A_BC_accept_terms
    \/ A_BC_search_property
    \/ A_BC_get_tax_info

SpecAPI == InitAPI /\ [][NextAPI]_vars

\* C1: through the public interface no step runs before its predecessor has
\* completed: a search is issued only after the session was acquired and
\* the gate completed, a tax-data request only after a search was executed.
C1_NoStepOutOfOrder ==
    \A n \in 1..Len(trace) :
        /\ trace[n].step = "search" =>
              /\ \E m \in 1..(n - 1) :
                    trace[m] = Event(0, "acquire_session", TRUE)
              /\ \E m \in 1..(n - 1) : trace[m] = Event(0, "gate", TRUE)
        /\ trace[n].step = "extract" =>
              \E m \in 1..(n - 1) : trace[m].step = "search"

\* ======================================================================
\* Field coercion (src/data_normalizer.py): amounts and dates.
\* A Python string under coercion is the sequence of its characters; an
\* Optional result is << >> for None and << v >> for the value v.
\* ======================================================================

\* Longest amount string drawn.
MaxAmountLen == 4
\* Most blanks drawn on either side of a date string.
MaxPad == 1

None == << >>
Some(v) == << v >>

\* dict.get(k, default) and `k in d` on a record standing for a dict.
Get(d, k, default) == IF k \in DOMAIN d THEN d[k] ELSE default
HasKey(d, k) == k \in DOMAIN d

Digits == {"0", "1", "2", "3", "4", "5", "6", "7", "8", "9"}

\* int() of one digit, and its inverse.
DigitValue(ch) ==
    CASE ch = "0" -> 0 [] ch = "1" -> 1 [] ch = "2" -> 2 [] ch = "3" -> 3
      [] ch = "4" -> 4 [] ch = "5" -> 5 [] ch = "6" -> 6 [] ch = "7" -> 7
      [] ch = "8" -> 8 [] ch = "9" -> 9
DigitChar(n) ==
    CASE n = 0 -> "0" [] n = 1 -> "1" [] n = 2 -> "2" [] n = 3 -> "3"
      [] n = 4 -> "4" [] n = 5 -> "5" [] n = 6 -> "6" [] n = 7 -> "7"
      [] n = 8 -> "8" [] n = 9 -> "9"

\* int() of a run of digits.
RECURSIVE DigitsValue(_)
DigitsValue(s) ==
    IF s = << >> THEN 0
    ELSE 10 * DigitsValue(SubSeq(s, 1, Len(s) - 1)) + DigitValue(s[Len(s)])

AllDigits(s) == s # << >> /\ \A k \in 1..Len(s) : s[k] \in Digits

\* A float that a string of digits, '.' and '-' can denote: m * 10^(-e),
\* with no trailing zero in the fraction, so that equal numbers are equal
\* records.
RECURSIVE Decimal(_, _)
Decimal(m, e) ==
    IF e > 0 /\ m % 10 = 0 THEN Decimal(m \div 10, e - 1)
    ELSE [ m |-> m, e |-> e ]

RECURSIVE Pow10(_)
Pow10(e) == IF e = 0 THEN 1 ELSE 10 * Pow10(e - 1)

\* a + b and a > 0 on such numbers.
DecimalAdd(a, b) ==
    LET e == IF a.e > b.e THEN a.e ELSE b.e
    IN  Decimal(a.m * Pow10(e - a.e) + b.m * Pow10(e - b.e), e)
DecimalPositive(a) == a.m > 0
Zero == [ m |-> 0, e |-> 0 ]

\* The variant of Cleaned() that keeps the commas.
CleanedKeepingCommas(s) ==
    SelectSeq(s, LAMBDA ch : ch \in Digits \cup {".", "-", ","})

\* re.sub(r'[^\d.-]', '', value)
Cleaned(s) == SelectSeq(s, LAMBDA ch : ch \in Digits \cup {".", "-"})

\* float(cleaned): an optional sign, then digits with at most one point and
\* at least one digit; None stands for ValueError.
ParseFloat(cleaned) ==
    LET neg  == cleaned # << >> /\ cleaned[1] = "-"
        body == IF neg THEN Tail(cleaned) ELSE cleaned
        dots == { k \in 1..Len(body) : body[k] = "." }
        dot  == IF dots = {} THEN Len(body) + 1
                ELSE CHOOSE k \in dots : TRUE
        int  == SubSeq(body, 1, dot - 1)
        frac == SubSeq(body, dot + 1, Len(body))
        m    == DigitsValue(int \o frac)
    IN  IF /\ \A k \in 1..Len(body) : body[k] \in Digits \cup {"."}
           /\ Cardinality(dots) <= 1
           /\ int \o frac # << >>
        THEN Some(Decimal(IF neg THEN 0 - m ELSE m, Len(frac)))
        ELSE None

\* _parse_amount_from_string(value)
ParseAmountFromString(s) ==
    IF s = << >> THEN None
    ELSE IF Cleaned(s) # << >> THEN ParseFloat(Cleaned(s)) ELSE None

\* The first loop of _extract_amount(): the first of possible_keys whose
\* value cleans to a non-empty string that float() accepts.
RECURSIVE AmountUnderKeys(_, _)
AmountUnderKeys(data, possible_keys) ==
    IF possible_keys = << >> THEN None
    ELSE LET key == Head(possible_keys)
             hit == IF HasKey(data, key) /\ Cleaned(data[key]) # << >>
                    THEN ParseFloat(Cleaned(data[key])) ELSE None
         IN  IF hit # None THEN hit
             ELSE AmountUnderKeys(data, Tail(possible_keys))

\* The fields of a record that hold amount text.  Its other string fields
\* (year, status, parcel and property ids) hold no '.', so the second loop
\* of _extract_amount() passes over them.
AmountTextFields == << "amount", "penalty", "interest" >>

\* The second loop of _extract_amount(): the first string value with a '$'
\* or a digit whose cleaned form has a '.' and is a float.
RECURSIVE AmountInStrings(_, _)
AmountInStrings(data, fields) ==
    IF fields = << >> THEN None
    ELSE LET f == Head(fields)
             s == Get(data, f, << >>)
             hit == IF /\ \E k \in 1..Len(s) : s[k] \in Digits \cup {"$"}
                       /\ \E k \in 1..Len(Cleaned(s)) : Cleaned(s)[k] = "."
                    THEN ParseFloat(Cleaned(s)) ELSE None
         IN  IF hit # None THEN hit ELSE AmountInStrings(data, Tail(fields))

\* _extract_amount(data, possible_keys)
ExtractAmount(data, possible_keys) ==
    LET first == AmountUnderKeys(data, possible_keys)
    IN  IF first # None THEN first
        ELSE AmountInStrings(data, AmountTextFields)

\* ------------------------------------------------------------------ dates

\* s.split(sep)
RECURSIVE SplitAt(_, _)
SplitAt(s, sep) ==
    IF \A k \in 1..Len(s) : s[k] # sep THEN << s >>
    ELSE LET k == CHOOSE n \in 1..Len(s) :
                     s[n] = sep /\ \A j \in 1..(n - 1) : s[j] # sep
         IN  << SubSeq(s, 1, k - 1) >>
                \o SplitAt(SubSeq(s, k + 1, Len(s)), sep)

\* str.strip() for blanks.
RECURSIVE Strip(_)
Strip(s) ==
    IF s = << >> THEN s
    ELSE IF s[1] = " " THEN Strip(Tail(s))
    ELSE IF s[Len(s)] = " " THEN Strip(SubSeq(s, 1, Len(s) - 1))
    ELSE s

\* The variant of DateFormats whose second format reads the day first.
DateFormatsDayFirst ==
    << [ sep |-> "-", Y |-> 1, m |-> 2, d |-> 3 ],
       [ sep |-> "/", Y |-> 3, m |-> 2, d |-> 1 ],
       [ sep |-> "-", Y |-> 3, m |-> 1, d |-> 2 ],
       [ sep |-> "/", Y |-> 1, m |-> 2, d |-> 3 ] >>

\* The four formats tried, in the order of the list in the code.
DateFormats ==
    << [ sep |-> "-", Y |-> 1, m |-> 2, d |-> 3 ],    \* %Y-%m-%d
       [ sep |-> "/", Y |-> 3, m |-> 1, d |-> 2 ],    \* %m/%d/%Y
       [ sep |-> "-", Y |-> 3, m |-> 1, d |-> 2 ],    \* %m-%d-%Y
       [ sep |-> "/", Y |-> 1, m |-> 2, d |-> 3 ] >>  \* %Y/%m/%d

\* What strptime's directives accept: %Y four digits; %m one or two digits
\* in 1..12; %d one or two digits in 1..31, or a blank and a digit 1..9.
MatchesY(p) == AllDigits(p) /\ Len(p) = 4
MatchesMonth(p) ==
    AllDigits(p) /\ Len(p) <= 2 /\ DigitsValue(p) \in 1..12
MatchesDay(p) ==
    \/ AllDigits(p) /\ Len(p) <= 2 /\ DigitsValue(p) \in 1..31
    \/ Len(p) = 2 /\ p[1] = " " /\ p[2] \in Digits \ {"0"}
DayValue(p) == IF p[1] = " " THEN DigitValue(p[2]) ELSE DigitsValue(p)

IsLeap(y) == y % 4 = 0 /\ (y % 100 # 0 \/ y % 400 = 0)
DaysInMonth(y, m) ==
    CASE m = 2 -> IF IsLeap(y) THEN 29 ELSE 28
      [] m \in {4, 6, 9, 11} -> 30
      [] OTHER -> 31

\* datetime.strptime(s, fmt): the date, or None for ValueError (the string
\* does not fit the format, or the day is not in the calendar).
Strptime(s, fmt) ==
    LET parts == SplitAt(s, fmt.sep)
    IN  IF /\ Len(parts) = 3
           /\ MatchesY(parts[fmt.Y])
           /\ MatchesMonth(parts[fmt.m])
           /\ MatchesDay(parts[fmt.d])
        THEN LET y == DigitsValue(parts[fmt.Y])
                 m == DigitsValue(parts[fmt.m])
                 d == DayValue(parts[fmt.d])
             IN  IF y >= 1 /\ d <= DaysInMonth(y, m)
                 THEN Some([ year |-> y, month |-> m, day |-> d ])
                 ELSE None
        ELSE None

\* '%04d' and '%02d'
Pad4(n) ==
    << DigitChar(n \div 1000), DigitChar((n \div 100) % 10),
       DigitChar((n \div 10) % 10), DigitChar(n % 10) >>
Pad2(n) == << DigitChar(n \div 10), DigitChar(n % 10) >>

\* datetime.isoformat() of a date at midnight.
Isoformat(dt) ==
    Pad4(dt.year) \o << "-" >> \o Pad2(dt.month) \o << "-" >>
       \o Pad2(dt.day) \o << "T", "0", "0", ":", "0", "0", ":", "0", "0" >>

\* The loop over the formats: the first one that parses s.
RECURSIVE FirstFormat(_, _)
FirstFormat(s, fmts) ==
    IF fmts = << >> THEN None
    ELSE IF Strptime(s, Head(fmts)) # None THEN Strptime(s, Head(fmts))
    ELSE FirstFormat(s, Tail(fmts))

\* _parse_date_from_string(value): the formats are tried on the stripped
\* string; the value itself is returned when none fits.
ParseDateFromString(s) ==
    IF s = << >> THEN None
    ELSE LET dt == FirstFormat(Strip(s), DateFormats)
         IN  IF dt # None THEN Some(Isoformat(dt[1])) ELSE Some(s)

\* _extract_date(data, possible_keys): the first key with a non-empty
\* value decides; the formats are tried on the value as it is.
RECURSIVE ExtractDate(_, _)
ExtractDate(data, possible_keys) ==
    IF possible_keys = << >> THEN None
    ELSE LET s == Get(data, Head(possible_keys), << >>)
             dt == FirstFormat(s, DateFormats)
         IN  IF s = << >> THEN ExtractDate(data, Tail(possible_keys))
             ELSE IF dt # None THEN Some(Isoformat(dt[1])) ELSE Some(s)

\* ======================================================================
\* TaxDataNormalizer (src/data_normalizer.py).
\* A dict is a record: a key the dict lacks is a field the record lacks.
\* The year keys of tax_data, in dictionary order, are the field `keyed`;
\* the lists of tax_data['page_extracted'] are the fields page_installments,
\* page_unpaid_taxes and tax_tables (api_extracted is handled by the same
\* code and is left out); the keys whose value is None are named in the
\* field `null_keys`.  Ids, years and statuses are plain strings, amounts
\* are character sequences.
\* ======================================================================

MaxInst == 2
MaxPageInst == 1
MaxYearKeys == 2
\* Longest unpaid_taxes list, and longest installments list with statuses
\* and amounts, drawn for the delinquent-tax table.
MaxUnpaid == 2
MaxDelinquent == 2
\* Most calls of scrape_county() on one MultiCountyScraper.
MaxCounties == 2

\* Python's None where a dict is expected.
NoneValue == [ py_none |-> TRUE ]
IsDict(d) == ~HasKey(d, "py_none")
\* `if d:` for a dict or None: the dict has a key.
NonEmptyDict(d) ==
    /\ IsDict(d)
    /\ \/ DOMAIN d \ {"keyed", "null_keys"} # {}
       \/ Get(d, "keyed", << >>) # << >>
       \/ Get(d, "null_keys", {}) # {}
\* `if s:` for a string or None.
NonEmpty(s) == s \notin {Null, ""}
\* The value under key k is None.
IsNoneAt(d, k) == k \in Get(d, "null_keys", {})

\* The values an item's year field takes here (Null: no year field).
YearFields == {"2023", "2024", "3000", Null}

\* int(year_value) for the 4-digit strings above.
YearInt(y) ==
    CASE y = "2023" -> 2023
      [] y = "2024" -> 2024
      [] y = "3000" -> 3000
      [] OTHER -> 0

\* str.isdigit() and len(...) == 4 for the strings above.
IsFourDigits(y) == y \in {"2023", "2024", "3000"}

\* The keys a year-keyed tax_data may have; key.isdigit().
YearKeys == {"2023", "2024", "3000", "12", "current"}
KeyIsDigit(key) == key # "current"

\* An installment item, reduced to its year field; a table row, reduced to
\* the cell under the table's year header.
Items == [year : YearFields]
ItemLists(n) == SeqsUpTo(Items, n)
\* The items drawn under a year key: without a year, or with the year 2024
\* (the year of the key, or another one).
KeyedItems == [year : {"2024", Null}]

\* isinstance(year_data, dict) for the value under a year key: a value that
\* is a list is an entry with the field `list`.
IsMapping(entry) == ~HasKey(entry, "list")

\* _extract_year_from_data(data): the year field when it is 4 digits within
\* [1900, 2100], else None.  The other string values of the items drawn
\* hold no 4-digit year, so the scan of lines 434-441 finds nothing.
ExtractYearFromData(data) ==
    LET year == IF IsMapping(data) THEN Get(data, "year", Null) ELSE Null
    IN  IF /\ year # Null
           /\ IsFourDigits(year)
           /\ 1900 <= YearInt(year) /\ YearInt(year) <= 2100
        THEN year ELSE Null

\* Python's `a or b` on year strings.
OrElse(a, b) == IF a # Null THEN a ELSE b

\* The cue words of the status and type tests, as character sequences.
W_paid == << "p", "a", "i", "d" >>
W_unpaid == << "u", "n" >> \o W_paid
W_delinquent == << "d", "e", "l", "i", "n", "q", "u", "e", "n", "t" >>
W_first == << "f", "i", "r", "s", "t" >>
W_1st == << "1", "s", "t" >>
W_second == << "s", "e", "c", "o", "n", "d" >>
W_2nd == << "2", "n", "d" >>

\* str.lower() for the capitals of the texts drawn.
LowerChar(ch) ==
    CASE ch = "P" -> "p" [] ch = "U" -> "u" [] ch = "D" -> "d"
      [] ch = "F" -> "f" [] ch = "S" -> "s" [] OTHER -> ch
Lower(s) == [ k \in 1..Len(s) |-> LowerChar(s[k]) ]

\* `sub in s`
Contains(sub, s) ==
    \E k \in 0..(Len(s) - Len(sub)) : SubSeq(s, k + 1, k + Len(sub)) = sub

\* The characters of the status strings of the items drawn.
Chars(status) ==
    CASE status = "paid" -> W_paid
      [] status = "unpaid" -> W_unpaid
      [] status = "delinquent" -> W_delinquent
      [] OTHER -> << >>

\* Lines 465-470 of _determine_installment_status(): 'paid' is looked for
\* first, and it is also found in 'unpaid'.
InstallmentStatusOf(status_lower) ==
    IF Contains(W_paid, status_lower) THEN "paid"
    ELSE IF \/ Contains(W_delinquent, status_lower)
            \/ Contains(W_unpaid, status_lower)
    THEN "delinquent"
    ELSE "pending"

\* _determine_installment_status(data) on an item whose status is one of the
\* strings above.
DetermineInstallmentStatus(data) ==
    InstallmentStatusOf(Chars(Get(data, "status", "")))

\* Lines 447-452 of _determine_status(): 'delinquent' and 'unpaid' are
\* looked for first.
StatusOf(status_lower) ==
    IF \/ Contains(W_delinquent, status_lower)
       \/ Contains(W_unpaid, status_lower)
    THEN "delinquent"
    ELSE IF Contains(W_paid, status_lower) THEN "paid"
    ELSE "current"

\* The installment types, as tuples: '1st_half', '2nd_half' and
\* f'installment_{installment_num}'.
FirstHalf == << "1st_half" >>
SecondHalf == << "2nd_half" >>
InstallmentN(installment_num) == << "installment", installment_num >>

\* _determine_installment_type(data, installment_num): the position is
\* tested in the same condition as the cue words.
DetermineInstallmentType(data, installment_num) ==
    IF \/ Contains(W_first, Lower(Get(data, "type", << >>)))
       \/ Contains(W_1st, Lower(Get(data, "type", << >>)))
       \/ installment_num = 1
    THEN FirstHalf
    ELSE IF \/ Contains(W_second, Lower(Get(data, "type", << >>)))
            \/ Contains(W_2nd, Lower(Get(data, "type", << >>)))
            \/ installment_num = 2
    THEN SecondHalf
    ELSE InstallmentN(installment_num)

\* One row of the Installment table: its key columns, its amount and its
\* status.
InstallmentRow(parcel_id, num, year, amount, status) ==
    [ parcel_id |-> parcel_id, installment_number |-> num,
      tax_year |-> year, amount |-> amount, status |-> status ]

\* Lines 190-209 and 221-238: the items of one list numbered from 1, with
\* the year of the item or else the year of the enclosing key.
NumberList(parcel_id, list, key_year) ==
    [ n \in 1..Len(list) |->
        InstallmentRow(parcel_id, n,
                       OrElse(ExtractYearFromData(list[n]), key_year),
                       ExtractAmount(list[n],
                           << "amount", "total", "installmentAmount",
                              "due" >>),
                       DetermineInstallmentStatus(list[n])) ]

\* `if year_idx and ...`: None and 0 are both false (-1 stands for None).
Truthy(idx) == idx # -1 /\ idx # 0

\* _parse_table_for_installments(): one row per data row, numbered by its
\* position in the table; the year is read only under a year header whose
\* index is truthy, and kept only when it is 4 digits.  The context lookup
\* finds nothing for a table row; the tables drawn have no amount and no
\* status header, so the amount is None and the status 'pending'.
ParseTableForInstallments(table, parcel_id) ==
    [ n \in 1..Len(table.rows) |->
        InstallmentRow(parcel_id, n,
            IF /\ Truthy(table.year_idx)
               /\ table.rows[n].year # Null
               /\ IsFourDigits(table.rows[n].year)
            THEN table.rows[n].year ELSE Null,
            None, "pending") ]

\* The concatenation of a sequence of sequences.
RECURSIVE Flatten(_)
Flatten(ss) == IF ss = << >> THEN << >> ELSE Head(ss) \o Flatten(Tail(ss))

\* The year keys of tax_data with their values, in dictionary order.
Keyed(tax_data) == Get(tax_data, "keyed", << >>)

\* 'page_extracted' in tax_data
HasPage(tax_data) ==
    \/ HasKey(tax_data, "page_installments")
    \/ HasKey(tax_data, "page_unpaid_taxes")
    \/ HasKey(tax_data, "tax_tables")

\* _extract_installments(): the year-keyed entries in dictionary order, each
\* numbered from 1; then, unless some key is a year, the top-level list with
\* the page-extracted one appended, numbered from 1 as one list; then the
\* rows of every table of page_extracted.
ExtractInstallments(parcel_id, tax_data) ==
    LET keyed == Flatten([ k \in 1..Len(Keyed(tax_data)) |->
                    NumberList(parcel_id,
                               IF IsMapping(Keyed(tax_data)[k])
                               THEN Get(Keyed(tax_data)[k], "installments",
                                        << >>)
                               ELSE << >>,
                               IF KeyIsDigit(Keyed(tax_data)[k].key)
                               THEN Keyed(tax_data)[k].key ELSE Null) ])
        flat == IF \E k \in 1..Len(Keyed(tax_data)) :
                       KeyIsDigit(Keyed(tax_data)[k].key)
                THEN << >>
                ELSE NumberList(parcel_id,
                         Get(tax_data, "installments", << >>)
                            \o Get(tax_data, "page_installments", << >>),
                         Null)
        tables == Flatten([ k \in 1..Len(Get(tax_data, "tax_tables", << >>)) |->
                     ParseTableForInstallments(tax_data.tax_tables[k],
                                               parcel_id) ])
    IN  keyed \o flat \o tables

\* Lines 212-218: the list under 'installments' is extended in place by the
\* page-extracted one; a dict without that key is left as it is, the list
\* extended being the default of get().
ExtendInstallments(tax_data) ==
    IF HasKey(tax_data, "installments")
    THEN [ tax_data EXCEPT !.installments =
              @ \o Get(tax_data, "page_installments", << >>) ]
    ELSE tax_data

\* ------------------------------------------------------------ properties

\* _extract_owner_name(res), reduced to its first field name.
ExtractOwnerName(res) == Get(res, "ConcatenatedName", "")

NoInfo == NoneValue

\* _extract_property_info(): the first search entry whose UserDefinedId is
\* the parcel id gives the property id and the owner name; without a
\* property id so far, tax_data['property_id'] is taken; the result is None
\* unless a property id or an owner name was found.
ExtractPropertyInfo(parcel_id, search_data, tax_data) ==
    LET results_list ==
            IF IsDict(search_data) THEN Get(search_data, "data", << >>)
            ELSE << >>
        hits == { k \in 1..Len(results_list) :
                    /\ NonEmpty(Get(results_list[k], "UserDefinedId", Null))
                    /\ results_list[k].UserDefinedId = parcel_id }
        res == results_list[CHOOSE k \in hits : \A j \in hits : k <= j]
        searched == IF hits = {} THEN Null ELSE Get(res, "PropertyId", "")
        owner_name == IF hits = {} THEN Null ELSE ExtractOwnerName(res)
        property_id ==
            IF ~NonEmpty(searched) /\ IsDict(tax_data)
            THEN Get(tax_data, "property_id", "")
            ELSE searched
    IN  IF NonEmpty(property_id) \/ NonEmpty(owner_name)
        THEN [ parcel_id |-> parcel_id, property_id |-> property_id,
               owner_name |-> owner_name ]
        ELSE NoInfo

\* `property_info.get('property_id') if property_info else None`
PropertyIdOf(property_info) ==
    IF property_info = NoInfo THEN Null ELSE property_info.property_id

\* ----------------------------------------------------------- tax periods

\* The year of a tax period: the key when it is a year, else the year found
\* in the value.
PeriodYear(entry) ==
    IF KeyIsDigit(entry.key) THEN entry.key ELSE ExtractYearFromData(entry)

\* Line 161: _extract_amount(year_data, ...) calls year_data.get, which a
\* value that is not a dict does not have.
TaxPeriodsRaise(tax_data) ==
    \E k \in 1..Len(Keyed(tax_data)) :
        /\ PeriodYear(Keyed(tax_data)[k]) # Null
        /\ ~IsMapping(Keyed(tax_data)[k])

\* _extract_tax_periods(): one row per year key with a year.
ExtractTaxPeriods(parcel_id, property_info, tax_data) ==
    LET with_year == SelectSeq(Keyed(tax_data),
                               LAMBDA e : PeriodYear(e) # Null)
    IN  [ k \in 1..Len(with_year) |->
            [ parcel_id |-> parcel_id,
              property_id |-> PropertyIdOf(property_info),
              tax_year |-> PeriodYear(with_year[k]) ] ]

\* ------------------------------------------------------ delinquent taxes

\* _extract_year_from_tax_data_context(data, tax_data): the first year key
\* whose dict holds data in one of its lists.
ExtractYearFromTaxDataContext(data, tax_data) ==
    LET holds(e) ==
            /\ KeyIsDigit(e.key) /\ IsMapping(e)
            /\ \E f \in {"unpaid_taxes", "installments"} :
                  \E n \in 1..Len(Get(e, f, << >>)) : e[f][n] = data
        hits == { k \in 1..Len(Keyed(tax_data)) : holds(Keyed(tax_data)[k]) }
    IN  IF hits = {} THEN Null
        ELSE Keyed(tax_data)[CHOOSE k \in hits : \A j \in hits : k <= j].key

UnpaidAmountKeys ==
    << "amount", "balance", "delinquent", "unpaid", "owed", "remaining",
       "outstanding" >>
InstallmentAmountKeys ==
    << "amount", "balance", "unpaid", "owed", "remaining" >>

\* The variant of IsPositive() that accepts every amount found.
AnyAmountFound(amount) == amount # None

\* `if delinquent_amount and delinquent_amount > 0`
IsPositive(amount) == amount # None /\ DecimalPositive(amount[1])

DelinquentRow(parcel_id, property_info, tax_year, delinquent_amount) ==
    [ parcel_id |-> parcel_id, property_id |-> PropertyIdOf(property_info),
      tax_year |-> tax_year, delinquent_amount |-> delinquent_amount,
      status |-> "delinquent" ]

\* Lines 264-285: the entry carries a positive amount.
HasUnpaidAmount(unpaid) == IsPositive(ExtractAmount(unpaid, UnpaidAmountKeys))

\* Lines 264-285: one row per unpaid entry with a positive amount, its year
\* taken from the entry or else from the year key that holds the entry.
ExplicitDelinquent(parcel_id, property_info, unpaid_list, tax_data) ==
    LET owed == SelectSeq(unpaid_list, HasUnpaidAmount)
    IN  [ k \in 1..Len(owed) |->
            DelinquentRow(parcel_id, property_info,
                OrElse(ExtractYearFromData(owed[k]),
                       ExtractYearFromTaxDataContext(owed[k], tax_data)),
                ExtractAmount(owed[k], UnpaidAmountKeys)[1]) ]

\* Line 302: the installment counts towards the delinquent total of its
\* year.
CountsAsDelinquent(inst) ==
    /\ ExtractYearFromData(inst) # Null
    /\ DetermineInstallmentStatus(inst) \in {"delinquent", "unpaid"}
    /\ IsPositive(ExtractAmount(inst, InstallmentAmountKeys))

\* The keys of installments_by_year, in insertion order.
RECURSIVE YearsInOrder(_)
YearsInOrder(list) ==
    IF list = << >> THEN << >>
    ELSE LET rest == YearsInOrder(SubSeq(list, 1, Len(list) - 1))
             year == ExtractYearFromData(list[Len(list)])
         IN  IF \E k \in 1..Len(rest) : rest[k] = year THEN rest
             ELSE Append(rest, year)

\* installments_by_year[year]['total_delinquent']
RECURSIVE TotalDelinquent(_, _)
TotalDelinquent(list, year) ==
    IF list = << >> THEN Zero
    ELSE LET rest == TotalDelinquent(SubSeq(list, 1, Len(list) - 1), year)
             inst == list[Len(list)]
         IN  IF ExtractYearFromData(inst) = year
             THEN DecimalAdd(rest,
                     ExtractAmount(inst, InstallmentAmountKeys)[1])
             ELSE rest

\* `existing = any(d.get('tax_year') == year for d in delinquent)`
Existing(delinquent, year) ==
    \E k \in 1..Len(delinquent) : delinquent[k].tax_year = year

\* Lines 312-326: one row per year of installments_by_year that has a
\* positive total and no row yet.
RECURSIVE DerivedDelinquent(_, _, _, _, _)
DerivedDelinquent(parcel_id, property_info, counted, years, delinquent) ==
    IF years = << >> THEN delinquent
    ELSE LET year == Head(years)
             total == TotalDelinquent(counted, year)
         IN  DerivedDelinquent(parcel_id, property_info, counted, Tail(years),
                 IF DecimalPositive(total) /\ ~Existing(delinquent, year)
                 THEN Append(delinquent,
                             DelinquentRow(parcel_id, property_info, year,
                                           total))
                 ELSE delinquent)

\* Lines 256-262 and 264: a None under 'unpaid_taxes' has no extend() and
\* cannot be iterated.
DelinquentTaxesRaise(tax_data) == IsNoneAt(tax_data, "unpaid_taxes")

\* _extract_delinquent_taxes(): the rows of the unpaid entries of the
\* top-level and page-extracted lists, then the rows derived from the
\* installments of the top-level and page-extracted lists.
ExtractDelinquentTaxes(parcel_id, property_info, tax_data) ==
    LET unpaid_list == Get(tax_data, "unpaid_taxes", << >>)
                          \o Get(tax_data, "page_unpaid_taxes", << >>)
        installments_list == Get(tax_data, "installments", << >>)
                                \o Get(tax_data, "page_installments", << >>)
        counted == SelectSeq(installments_list, CountsAsDelinquent)
    IN  DerivedDelinquent(parcel_id, property_info, counted,
            YearsInOrder(counted),
            ExplicitDelinquent(parcel_id, property_info, unpaid_list,
                               tax_data))

\* Lines 256-262 and 288-292: both lists are extended in place.
ExtendForDelinquent(tax_data) ==
    LET t == IF HasKey(tax_data, "unpaid_taxes")
             THEN [ tax_data EXCEPT !.unpaid_taxes =
                       @ \o Get(tax_data, "page_unpaid_taxes", << >>) ]
             ELSE tax_data
    IN  ExtendInstallments(t)

\* --------------------------------------------------- penalties, interest

\* `amount or 0.0` for an Optional amount.
OrZero(amount) == IF amount # None THEN amount[1] ELSE Zero

\* Lines 355-363: the row of a bundle, of the two amounts found.
PenaltyRow(parcel_id, property_info, penalty_amount, interest_amount) ==
    [ parcel_id |-> parcel_id,
      property_id |-> PropertyIdOf(property_info),
      penalty_amount |-> OrZero(penalty_amount),
      interest_amount |-> OrZero(interest_amount),
      total_penalties_interest |->
          DecimalAdd(OrZero(penalty_amount), OrZero(interest_amount)) ]

\* Line 354, `if penalty_amount or interest_amount`: an amount was found and
\* is not zero.
NonZero(amount) == amount # None /\ amount[1] # Zero

\* _extract_penalties_interest(): one row when a penalty or an interest
\* amount other than zero is found in tax_data.
ExtractPenaltiesInterest(parcel_id, property_info, tax_data) ==
    IF \/ NonZero(ExtractAmount(tax_data, << "penalty", "penalties",
                                            "penaltyAmount" >>))
       \/ NonZero(ExtractAmount(tax_data, << "interest", "interestAmount" >>))
    THEN << PenaltyRow(parcel_id, property_info,
                ExtractAmount(tax_data, << "penalty", "penalties",
                                           "penaltyAmount" >>),
                ExtractAmount(tax_data, << "interest", "interestAmount" >>)) >>
    ELSE << >>

\* ------------------------------------------------ normalize_scraped_data

\* Lines 41-42: the Property row of the bundle, when it has one.
WithProperty(self, property_info) ==
    IF property_info # NoInfo
    THEN [ self EXCEPT !.properties = Append(@, property_info) ]
    ELSE self

\* Lines 46-50: the TaxPeriod and Installment rows of the bundle.
WithInstallments(self, parcel_id, property_info, tax_data) ==
    [ self EXCEPT
        !.tax_periods =
            @ \o ExtractTaxPeriods(parcel_id, property_info, tax_data),
        !.installments = @ \o ExtractInstallments(parcel_id, tax_data) ]

\* Lines 52-56: the DelinquentTax rows, of tax_data as the extraction of
\* the installments left it, and the PenaltyInterest rows, of tax_data as
\* the extraction of the delinquent taxes left it.
WithDelinquent(self, parcel_id, property_info, tax_data, extended) ==
    [ self EXCEPT
        !.delinquent_taxes =
            @ \o ExtractDelinquentTaxes(parcel_id, property_info, tax_data),
        !.penalties_interest =
            @ \o ExtractPenaltiesInterest(parcel_id, property_info,
                                          extended) ]

\* Lines 52-56, after the installments: `self` holds the rows so far and
\* tax_data is as _extract_installments() left it.
NormalizeTaxData(self, result, parcel_id, property_info, tax_data) ==
    IF DelinquentTaxesRaise(tax_data)
    THEN [ self |-> self, result |-> [ result EXCEPT !.tax_data = tax_data ],
           raised |-> TRUE ]
    ELSE [ self |-> WithDelinquent(self, parcel_id, property_info, tax_data,
                                   ExtendForDelinquent(tax_data)),
           result |-> [ result EXCEPT
                          !.tax_data = ExtendForDelinquent(tax_data) ],
           raised |-> FALSE ]

\* Lines 40-56 for a bundle whose fields have been read: the tables after
\* it, the bundle after it, and whether it raised.  An exception leaves the
\* tables as the extractions before it extended them.
NormalizeBundle(self, result, parcel_id, tax_data, property_info) ==
    IF ~NonEmptyDict(tax_data)
    THEN [ self |-> WithProperty(self, property_info), result |-> result,
           raised |-> FALSE ]
    ELSE IF TaxPeriodsRaise(tax_data)
    THEN [ self |-> WithProperty(self, property_info), result |-> result,
           raised |-> TRUE ]
    ELSE NormalizeTaxData(
             WithInstallments(WithProperty(self, property_info), parcel_id,
                              property_info, tax_data),
             result, parcel_id, property_info, ExtendInstallments(tax_data))

\* The body of the loop of normalize_scraped_data() for one bundle.
NormalizeResult(self, result) ==
    NormalizeBundle(self, result, Get(result, "parcel_id", Null),
        Get(result, "tax_data", << >>),
        ExtractPropertyInfo(Get(result, "parcel_id", Null),
                            Get(result, "search_data", << >>),
                            Get(result, "tax_data", << >>)))

\* normalize_scraped_data(scraped_results) on a normalizer whose lists are
\* `self`: the bundles in order, up to the first one that raises.
RECURSIVE NormalizeFrom(_, _, _)
RECURSIVE NormalizeNext(_, _, _)
NormalizeFrom(self, bundles, k) ==
    IF k > Len(bundles)
    THEN [ self |-> self, scraped_results |-> bundles, raised |-> FALSE ]
    ELSE NormalizeNext(NormalizeResult(self, bundles[k]), bundles, k)

\* The loop after bundle k gave r: an exception ends the call.
NormalizeNext(r, bundles, k) ==
    IF r.raised
    THEN [ self |-> r.self,
           scraped_results |-> [ bundles EXCEPT ![k] = r.result ],
           raised |-> TRUE ]
    ELSE NormalizeFrom(r.self, [ bundles EXCEPT ![k] = r.result ], k + 1)

NormalizeScrapedData(self, bundles) == NormalizeFrom(self, bundles, 1)

\* self.properties, ..., self.penalties_interest as one record.
Self ==
    [ properties |-> properties, tax_periods |-> tax_periods,
      installments |-> installments, delinquent_taxes |-> delinquent_taxes,
      penalties_interest |-> penalties_interest ]

\* The lists of the normalizer become those of `self`.
SetTables(self) ==
    /\ properties' = self.properties
    /\ tax_periods' = self.tax_periods
    /\ installments' = self.installments
    /\ delinquent_taxes' = self.delinquent_taxes
    /\ penalties_interest' = self.penalties_interest

\* The call ends as r tells: the lists of the normalizer and the bundles
\* are as the loop left them, and the call raised or returned.
Returns(r) ==
    /\ SetTables(r.self)
    /\ scraped_results' = r.scraped_results
    /\ outcome' = IF r.raised THEN "raised" ELSE "returned"

\* ------------------------------------------------------- bundles drawn

\* The shapes of tax_data drawn as input: year-keyed with at most maxKeys
\* keys, and flat with page-extracted items and at most one table, the lists
\* and tables holding at most maxInst items.
KeySeqs(maxKeys) ==
    { q \in SeqsUpTo(YearKeys, maxKeys) :
        /\ q # << >>
        /\ \A a, b \in 1..Len(q) : a # b => q[a] # q[b] }

KeyedTaxData(maxKeys, maxInst) ==
    UNION { { [ keyed |-> [ k \in 1..Len(keys) |->
                              [ key |-> keys[k], installments |-> ls[k] ] ],
                installments |-> << >>, page_installments |-> << >>,
                tax_tables |-> << >> ] :
              ls \in [1..Len(keys) -> SeqsUpTo(KeyedItems, maxInst)] } :
            keys \in KeySeqs(maxKeys) }

Tables(maxInst) ==
    [year_idx : {-1, 0, 1}, rows : ItemLists(maxInst) \ {<< >>}]

FlatTaxData(maxInst, maxPage) ==
    { [ keyed |-> << >>, installments |-> l, page_installments |-> pl,
        tax_tables |-> ts ] :
      l \in ItemLists(maxInst), pl \in ItemLists(maxPage),
      ts \in {<< >>} \cup { << t >> : t \in Tables(maxInst) } }

\* The amount texts of the items drawn for the delinquent-tax table.
A100 == << "1", "0", "0" >>
A50 == << "5", "0" >>
A75 == << "7", "5" >>
A0 == << "0" >>
AMinus5 == << "-", "5" >>

\* Installments with a status and an amount, and unpaid entries.
DelinquentItems ==
    { [ year |-> "2024", status |-> "delinquent", amount |-> A100 ],
      [ year |-> "2024", status |-> "delinquent", amount |-> A50 ],
      [ year |-> "2024", status |-> "delinquent", amount |-> A0 ],
      [ year |-> "2024", status |-> "paid", amount |-> A100 ],
      [ year |-> "2023", status |-> "delinquent", amount |-> A100 ] }
UnpaidEntries ==
    { [ year |-> "2024", amount |-> A75 ],
      [ year |-> "2024", amount |-> AMinus5 ],
      [ amount |-> A75 ] }
\* Installments under a year key: with and without a year of their own.
KeyedDelinquentItems ==
    { [ status |-> "delinquent", amount |-> A100 ],
      [ status |-> "delinquent", amount |-> A50 ],
      [ year |-> "2024", status |-> "delinquent", amount |-> A100 ] }

\* Flat tax_data with top-level lists only.
FlatDelinquentData(maxInst, maxUnpaid) ==
    { [ installments |-> l, unpaid_taxes |-> u ] :
        l \in SeqsUpTo(DelinquentItems, maxInst),
        u \in SeqsUpTo(UnpaidEntries, maxUnpaid) }

\* What LaCrosseScraper.scrape() builds from a page extraction: the
\* page-extracted lists alone (the API request failed), or with top-level
\* lists that hold the same entries (the API gave no entry of its own).
DualSourceData(maxPage) ==
    UNION { { [ page_installments |-> pi, page_unpaid_taxes |-> pu ],
              [ page_installments |-> pi, page_unpaid_taxes |-> pu,
                installments |-> pi, unpaid_taxes |-> pu ],
              [ page_installments |-> pi, page_unpaid_taxes |-> pu,
                installments |-> pi, unpaid_taxes |-> pu,
                penalty |-> << "5", ".", "1" >> ] } :
            pi \in SeqsUpTo({ [ year |-> "2024", status |-> "delinquent",
                                amount |-> A100 ] }, maxPage),
            pu \in SeqsUpTo({ [ year |-> "2024", amount |-> A75 ] },
                            maxPage) }

\* Year-keyed tax_data: one key with its installments; and one whose unpaid
\* entry is also in the top-level list.
KeyedDelinquentData(maxInst) ==
    UNION { { [ keyed |-> << [ key |-> k, installments |-> l ] >> ] :
                k \in {"2024", "current"} }
            \cup
            { [ keyed |-> << [ key |-> "2024", installments |-> l,
                               unpaid_taxes |-> << [ amount |-> A75 ] >> ] >>,
                unpaid_taxes |-> << [ amount |-> A75 ] >> ] } :
            l \in SeqsUpTo(KeyedDelinquentItems, maxInst) }

\* tax_data with a value of the wrong type: a list under a year key, a None
\* under 'unpaid_taxes'.
MalformedData ==
    { [ keyed |-> << [ key |-> k, list |-> << >> ] >>,
        installments |-> l ] :
        k \in {"2024", "current"},
        l \in SeqsUpTo({ [ year |-> "2024", status |-> "delinquent",
                           amount |-> A100 ] }, 1) }
    \cup
    { [ null_keys |-> {"unpaid_taxes"}, installments |-> l,
        page_installments |-> l ] :
        l \in SeqsUpTo({ [ year |-> "2024", status |-> "delinquent",
                           amount |-> A100 ] }, 1) }

\* tax_data with amounts at its top level: a penalty and an interest, one
\* of them, both zero, a negative penalty, and an amount that is neither.
PenaltyData ==
    { [ penalty |-> << "5", ".", "1" >>, interest |-> << "2" >> ],
      [ penalty |-> << "5", ".", "1" >> ],
      [ interest |-> << "2", ".", "5" >> ],
      [ penalty |-> << "0" >>, interest |-> << "0", ".", "0" >> ],
      [ penalty |-> << "-", "5" >> ],
      [ amount |-> << "1", "2", ".", "5" >> ],
      [ amount |-> << "1", "2" >> ] }

\* The tax_data of the bundles drawn for the five tables.
TableTaxData(maxInst, maxUnpaid, maxPage) ==
    FlatDelinquentData(maxInst, maxUnpaid) \cup DualSourceData(maxPage)
       \cup KeyedDelinquentData(maxInst) \cup MalformedData
       \cup PenaltyData \cup { NoneValue }

\* tax_data with and without a property id of its own.
WithPropertyId(t) ==
    IF IsDict(t) THEN { t, [ property_id |-> "p1" ] @@ t } ELSE { t }

\* search_data: None (a failed parcel), no entry, the entry of the parcel
\* (with and without a property id), the entry of another parcel.
SearchData(parcel_id) ==
    { NoneValue,
      [ data |-> << >> ],
      [ data |-> << [ UserDefinedId |-> parcel_id, PropertyId |-> "p1",
                      ConcatenatedName |-> "owner" ] >> ],
      [ data |-> << [ UserDefinedId |-> "Z", PropertyId |-> "p9",
                      ConcatenatedName |-> "other" ] >> ] }

\* A short list of well-formed bundles that follows a first bundle.
LaterBundles ==
    { << >>,
      << [ parcel_id |-> "B", search_data |-> [ data |-> << >> ],
           tax_data |-> [ property_id |-> "p2",
                          installments |-> << >>,
                          unpaid_taxes |->
                              << [ year |-> "2024", amount |-> A75 ] >> ] ] >> }

\* ------------------------------------------------------------- actions

\* The scraper variables of a state in which no scrape runs.
ScrapeIdle ==
    /\ parcel_ids = << >>
    /\ i = 0
    /\ results = << >>
    /\ cur = NoCur
    /\ raising = FALSE
    /\ outcome = "running"
    /\ httpJar = {}
    /\ cookies = {}
    /\ browserJar = {}
    /\ driver = Null
    /\ browser = "none"
    /\ tokens = NoTokens
    /\ trace = << >>
    /\ reqs = {}
    /\ setupFailed = FALSE
    /\ lastStep = NoStep

\* normalize_scraped_data(scraped_results) on a TaxDataNormalizer: every
\* table is extended by the rows of the bundles, in order; the lists of the
\* bundles are extended in place; an exception ends the call.
Normalize ==
    /\ kind = "normalizer" /\ pc = "normalize"
    /\ Returns(NormalizeScrapedData(Self, scraped_results))
    /\ pc' = "normalized"
    /\ UNCHANGED << kind, parcel_ids, i, results, cur, raising,
                    trace, reqs, setupFailed, lastStep, objVars,
                    given, normalized_data, coerceVars, locate >>

\* A fresh TaxDataNormalizer and the bundle list it is called with.
InitNorm ==
    /\ kind = "normalizer"
    /\ parcel_ids = << >>
    /\ pc = "normalize"
    /\ i = 0
    /\ results = << >>
    /\ cur = NoCur
    /\ raising = FALSE
    /\ outcome = "running"
    /\ httpJar = {}
    /\ cookies = {}
    /\ browserJar = {}
    /\ driver = Null
    /\ browser = "none"
    /\ tokens = NoTokens
    /\ trace = << >>
    /\ reqs = {}
    /\ setupFailed = FALSE
    /\ lastStep = NoStep
    /\ \E p \in ParcelIds,
          t \in KeyedTaxData(MaxYearKeys, MaxInst)
                 \cup FlatTaxData(MaxInst, MaxPageInst) :
          scraped_results = << [ parcel_id |-> p, tax_data |-> t ] >>
    /\ given = scraped_results
    /\ installments = << >>
    /\ properties = << >>
    /\ tax_periods = << >>
    /\ delinquent_taxes = << >>
    /\ penalties_interest = << >>
    /\ normalized_data = NoTables
    /\ value = << >>
    /\ coerced = NotCoerced
    /\ locate = NotLocating

NextNorm == Normalize

SpecNorm == InitNorm /\ [][NextNorm]_vars

\* A fresh TaxDataNormalizer and a bundle list for the five tables: one
\* bundle of any shape drawn, then at most one well-formed bundle.
InitTables ==
    /\ kind = "normalizer"
    /\ pc = "normalize"
    /\ ScrapeIdle
    /\ \E t \in TableTaxData(MaxDelinquent, MaxUnpaid, MaxPageInst) :
          \E td \in WithPropertyId(t), s \in SearchData("A"),
             later \in LaterBundles :
             scraped_results =
                << [ parcel_id |-> "A", search_data |-> s,
                     tax_data |-> td ] >> \o later
    /\ given = scraped_results
    /\ installments = << >>
    /\ properties = << >>
    /\ tax_periods = << >>
    /\ delinquent_taxes = << >>
    /\ penalties_interest = << >>
    /\ normalized_data = NoTables
    /\ value = << >>
    /\ coerced = NotCoerced
    /\ locate = NotLocating

NextTables == Normalize

SpecTables == InitTables /\ [][NextTables]_vars

\* ------------------------------------------------- MultiCountyScraper

\* The keys of MultiCountyScraper.self.scrapers.
Scrapers == {"lacrosse"}

\* What a scraper's scrape() hands to the normalizer: a list of bundles.
ScrapedLists ==
    { << [ parcel_id |-> p, search_data |-> s,
           tax_data |-> [ property_id |-> "p1", installments |-> l,
                          unpaid_taxes |-> u ] ] >> :
        p \in ParcelIds,
        s \in { [ data |-> << >> ] },
        l \in SeqsUpTo({ [ year |-> "2024", status |-> "delinquent",
                           amount |-> A100 ] }, 1),
        u \in SeqsUpTo({ [ year |-> "2024", amount |-> A75 ],
                         [ year |-> "2023", amount |-> A75 ] }, 1) }
    \cup { << [ parcel_id |-> p, search_data |-> NoneValue,
                tax_data |-> NoneValue ] >> : p \in ParcelIds }

\* `df['county'] = county_name.lower()` on every table that has rows.
Labelled(self, county) ==
    [ t \in DOMAIN self |->
        [ k \in 1..Len(self[t]) |-> [ county |-> county ] @@ self[t][k] ] ]

\* MultiCountyScraper.scrape_county(county_name, parcel_ids): a county
\* without a scraper raises ValueError; else the bundles of a fresh scraper
\* go to the normalizer of the MultiCountyScraper, and the tables it
\* returns are labelled with the county.
ScrapeCounty ==
    /\ kind = "multi" /\ pc = "counties"
    /\ i < MaxCounties
    /\ i' = i + 1
    /\ \E county \in {"lacrosse", "brown"}, bundles \in ScrapedLists :
          IF county \notin Scrapers
          THEN /\ outcome' = "raised"
               /\ UNCHANGED << scraped_results, tableVars, given,
                               normalized_data >>
          ELSE /\ Returns(NormalizeScrapedData(Self, bundles))
               /\ given' = bundles
               /\ normalized_data' =
                     IF outcome' = "raised" THEN normalized_data
                     ELSE Labelled(Self', county)
    /\ UNCHANGED << kind, parcel_ids, pc, results, cur, raising,
                    trace, reqs, setupFailed, lastStep, objVars,
                    coerceVars, locate >>

\* A MultiCountyScraper after __init__().
InitMulti ==
    /\ kind = "multi"
    /\ pc = "counties"
    /\ ScrapeIdle
    /\ NormIdle

NextMulti == ScrapeCounty

SpecMulti == InitMulti /\ [][NextMulti]_vars

\* ---------------------------------------------- the coercion functions

\* The amount strings drawn: every string over these characters.
AmountChars == {"$", ",", ".", "-", "0", "1", "5"}
AmountStrings(maxLen) == SeqsUpTo(AmountChars, maxLen)

\* The date strings drawn: a year, a month and a day written in one of the
\* two layouts, between any two of three separators, with and without
\* leading zeros, with blanks around it and with or without a trailing
\* letter.
DateYears == {2023, 2024}
DateMonths == {2, 12, 13}
DateDays == {5, 29, 30, 31}
DateSeps == {"-", "/", "."}

Numeral(n, zeros) ==
    IF zeros \/ n >= 10 THEN Pad2(n) ELSE << DigitChar(n) >>

Written(layout, y, m, d, sep1, sep2, zeros) ==
    IF layout = "Ymd"
    THEN Pad4(y) \o << sep1 >> \o Numeral(m, zeros) \o << sep2 >>
            \o Numeral(d, zeros)
    ELSE Numeral(m, zeros) \o << sep1 >> \o Numeral(d, zeros) \o << sep2 >>
            \o Pad4(y)

Blanks(n) == [ k \in 1..n |-> " " ]

DateStrings(maxPad) ==
    { Blanks(a) \o Written(layout, y, m, d, sep1, sep2, zeros)
         \o Blanks(b) \o tail :
        layout \in {"Ymd", "mdY"}, y \in DateYears, m \in DateMonths,
        d \in DateDays, sep1 \in DateSeps, sep2 \in DateSeps,
        zeros \in BOOLEAN, a \in 0..maxPad, b \in 0..maxPad,
        tail \in { << >>, << "x" >> } }

\* _parse_amount_from_string(value), and _extract_amount() on an item whose
\* amount is value.
CoerceAmount ==
    /\ kind = "coercion" /\ pc = "coerce"
    /\ coerced' =
          [ fn |-> "amount",
            parsed |-> ParseAmountFromString(value),
            extracted |->
                ExtractAmount([ amount |-> value ],
                    << "amount", "total", "installmentAmount", "due" >>) ]
    /\ pc' = "coerced"
    /\ UNCHANGED << kind, parcel_ids, i, results, cur, raising, outcome,
                    trace, reqs, setupFailed, lastStep, objVars,
                    scraped_results, tableVars, given, normalized_data,
                    value, locate >>

\* _parse_date_from_string(value), and _extract_date() on an item whose
\* due date is value.
CoerceDate ==
    /\ kind = "coercion" /\ pc = "coerce"
    /\ coerced' =
          [ fn |-> "date",
            parsed |-> ParseDateFromString(value),
            extracted |->
                ExtractDate([ due_date |-> value ],
                    << "dueDate", "due_date", "date", "due" >>) ]
    /\ pc' = "coerced"
    /\ UNCHANGED << kind, parcel_ids, i, results, cur, raising, outcome,
                    trace, reqs, setupFailed, lastStep, objVars,
                    scraped_results, tableVars, given, normalized_data,
                    value, locate >>

\* A string about to be coerced.
InitCoerce ==
    /\ kind = "coercion"
    /\ pc = "coerce"
    /\ ScrapeIdle
    /\ scraped_results = << >>
    /\ given = << >>
    /\ installments = << >>
    /\ properties = << >>
    /\ tax_periods = << >>
    /\ delinquent_taxes = << >>
    /\ penalties_interest = << >>
    /\ normalized_data = NoTables
    /\ value \in AmountStrings(MaxAmountLen) \cup DateStrings(MaxPad)
    /\ coerced = NotCoerced
    /\ locate = NotLocating

NextCoerce == CoerceAmount \/ CoerceDate

SpecCoerce == InitCoerce /\ [][NextCoerce]_vars

\* ------------------------------------- the status and type functions

\* Longest installment list position drawn.
MaxInstallmentNum == 3

\* The words the status and type texts drawn are made of.
Words ==
    { W_paid, W_unpaid, W_delinquent, W_first, W_1st, W_second, W_2nd,
      << "P", "a", "i", "d" >>, << "D", "u", "e" >>, << "h", "a", "l", "f" >> }

\* The texts drawn: nothing, one word, two words with a blank between.
Texts ==
    { << >> } \cup Words
       \cup { a \o << " " >> \o b : a \in Words, b \in Words }

\* _determine_installment_type(data, installment_num) on an item whose type
\* is the text drawn, at the position drawn.
DetermineType ==
    /\ kind = "fields" /\ pc = "apply"
    /\ coerced' =
          [ fn |-> "installment_type",
            installment_type |->
                DetermineInstallmentType([ type |-> value.text ],
                                         value.installment_num) ]
    /\ pc' = "applied"
    /\ UNCHANGED << kind, parcel_ids, i, results, cur, raising, outcome,
                    trace, reqs, setupFailed, lastStep, objVars,
                    scraped_results, tableVars, given, normalized_data,
                    value, locate >>

\* _determine_installment_status(data) and _determine_status(data) on an
\* item whose status is the text drawn.
DetermineStatus ==
    /\ kind = "fields" /\ pc = "apply"
    /\ coerced' =
          [ fn |-> "status",
            installment_status |-> InstallmentStatusOf(Lower(value.text)),
            status |-> StatusOf(Lower(value.text)) ]
    /\ pc' = "applied"
    /\ UNCHANGED << kind, parcel_ids, i, results, cur, raising, outcome,
                    trace, reqs, setupFailed, lastStep, objVars,
                    scraped_results, tableVars, given, normalized_data,
                    value, locate >>

\* An item about to be classified: its text and its position in the list.
InitFields ==
    /\ kind = "fields"
    /\ pc = "apply"
    /\ ScrapeIdle
    /\ scraped_results = << >>
    /\ given = << >>
    /\ installments = << >>
    /\ properties = << >>
    /\ tax_periods = << >>
    /\ delinquent_taxes = << >>
    /\ penalties_interest = << >>
    /\ normalized_data = NoTables
    /\ value \in [ text : Texts, installment_num : 1..MaxInstallmentNum ]
    /\ coerced = NotCoerced
    /\ locate = NotLocating

NextFields == DetermineType \/ DetermineStatus

SpecFields == InitFields /\ [][NextFields]_vars

\* ======================================================================
\* The locate loops of LaCrosseScraper (src/lacrosse_scraper.py): a list of
\* selectors is tried in order for the guest-login button, the parcel input,
\* the search button and the Taxes tab.  `locate` holds the step, the tries
\* made so far, the element taken and the exception raised.
\* ======================================================================

LocateSteps ==
    {"guest_login_button", "parcel_input", "search_button", "taxes_tab"}

\* button_selectors of guest_login_selenium().
GuestLoginButtonSelectors ==
    << "//button[@type='submit' and contains(text(), 'Accept and Sign In')]",
       "//button[contains(@class, 'btn-primary') and contains(text(), 'Accept and Sign In')]",
       "//form[@id='GuestLoginForm']//button[@type='submit']",
       "button.btn-primary[type='submit']" >>

\* selectors of search_property_selenium().
ParcelInputSelectors ==
    << "input[name='MinUserDefinedId'][data-mask-type='ParcelNumber']",
       "input.form-control[name='MinUserDefinedId']",
       "MinUserDefinedId",
       "input[name='MinUserDefinedId']",
       "input[data-mask-type='ParcelNumber']",
       "//input[@name='MinUserDefinedId' and @data-mask-type='ParcelNumber']",
       "//input[@name='MinUserDefinedId']",
       "//input[@data-mask-type='ParcelNumber']" >>

\* search_button_selectors of search_property_selenium().
SearchButtonSelectors ==
    << "button#SearchButton",
       "button.btn-primary[type='submit']",
       "//button[@id='SearchButton']",
       "//button[contains(@class, 'btn-primary') and @type='submit']" >>

\* taxes_tab_selectors of click_row_and_navigate_to_taxes().
TaxesTabSelectors ==
    << "a[data-tab='Taxes']",
       "a.nav-link[href*='Taxes']",
       "//a[@data-tab='Taxes']",
       "//li[@class='nav-item']//a[contains(@href, 'Taxes')]" >>

Selectors(step) ==
    CASE step = "guest_login_button" -> GuestLoginButtonSelectors
      [] step = "parcel_input" -> ParcelInputSelectors
      [] step = "search_button" -> SearchButtonSelectors
      [] step = "taxes_tab" -> TaxesTabSelectors

\* The message of the NoSuchElementException raised after the loop.
NotFoundMessage(step) ==
    CASE step = "guest_login_button" -> "Could not find guest login button"
      [] step = "parcel_input" ->
            "Could not find MinUserDefinedId input field"
      [] step = "search_button" -> "Could not find Search button"
      [] step = "taxes_tab" -> "Could not find Taxes tab"

\* What one try can give.  WebDriverWait(driver, 10).until(...) returns the
\* element ("found") or raises TimeoutException after 10 seconds
\* ("timeout"); any other exception of the driver leaves the loop
\* ("error").  The parcel input is waited for by presence only, and the
\* element is then dropped when it is not displayed or not enabled
\* ("hidden").
TryOutcomes(step) ==
    IF step = "parcel_input"
    THEN {"timeout", "hidden", "found", "error"}
    ELSE {"timeout", "found", "error"}

\* A variant of the loop body that does not leave the loop with the element
\* found: the next selector is tried as well, and its element taken.
TryEveryStrategy ==
    /\ kind = "locate" /\ pc = "loop"
    /\ \E o \in TryOutcomes(locate.step) :
          LET selector == Selectors(locate.step)[Len(locate.tried) + 1]
          IN  /\ locate' =
                    [ locate EXCEPT
                        !.tried = Append(@, [ selector |-> selector,
                                              outcome |-> o ]),
                        !.target = IF o = "found" THEN selector
                                   ELSE IF o = "hidden" THEN Null ELSE @,
                        !.raised = IF o = "error" THEN "WebDriverException"
                                   ELSE @ ]
              /\ pc' = IF o = "error" THEN "raised"
                       ELSE IF Len(locate.tried) + 1
                                  = Len(Selectors(locate.step))
                       THEN "after_loop" ELSE "loop"
    /\ UNCHANGED << kind, parcel_ids, i, results, cur, raising, outcome,
                    trace, reqs, setupFailed, lastStep, objVars,
                    scraped_results, tableVars, given, normalized_data,
                    coerceVars >>

\* One pass of the loop body: the next selector of the list is waited for;
\* the element found ends the loop (`break`), a timeout or an element that
\* is not interactable goes on to the next selector (`continue`), and the
\* loop ends with the list.
TryStrategy ==
    /\ kind = "locate" /\ pc = "loop"
    /\ \E o \in TryOutcomes(locate.step) :
          LET selector == Selectors(locate.step)[Len(locate.tried) + 1]
          IN  /\ locate' =
                    [ locate EXCEPT
                        !.tried = Append(@, [ selector |-> selector,
                                              outcome |-> o ]),
                        !.target = IF o = "found" THEN selector
                                   ELSE IF o = "hidden" THEN Null ELSE @,
                        !.raised = IF o = "error" THEN "WebDriverException"
                                   ELSE @ ]
              /\ pc' = IF o = "error" THEN "raised"
                       ELSE IF \/ o = "found"
                               \/ Len(locate.tried) + 1
                                     = Len(Selectors(locate.step))
                       THEN "after_loop" ELSE "loop"
    /\ UNCHANGED << kind, parcel_ids, i, results, cur, raising, outcome,
                    trace, reqs, setupFailed, lastStep, objVars,
                    scraped_results, tableVars, given, normalized_data,
                    coerceVars >>

\* After the loop: `if x is None: raise NoSuchElementException(...)`, else
\* the step goes on with the element.
AfterLoop ==
    /\ kind = "locate" /\ pc = "after_loop"
    /\ IF locate.target = Null
       THEN /\ locate' = [ locate EXCEPT
                             !.raised = NotFoundMessage(locate.step) ]
            /\ pc' = "raised"
       ELSE /\ pc' = "located"
            /\ UNCHANGED locate
    /\ UNCHANGED << kind, parcel_ids, i, results, cur, raising, outcome,
                    trace, reqs, setupFailed, lastStep, objVars,
                    scraped_results, tableVars, given, normalized_data,
                    coerceVars >>

\* A locate step about to enter its loop: no selector tried, no element.
InitLocate ==
    /\ kind = "locate"
    /\ pc = "loop"
    /\ ScrapeIdle
    /\ scraped_results = << >>
    /\ given = << >>
    /\ installments = << >>
    /\ properties = << >>
    /\ tax_periods = << >>
    /\ delinquent_taxes = << >>
    /\ penalties_interest = << >>
    /\ normalized_data = NoTables
    /\ value = << >>
    /\ coerced = NotCoerced
    /\ \E step \in LocateSteps :
          locate = [ step |-> step, tried |-> << >>, target |-> Null,
                     raised |-> Null ]

NextLocate == TryStrategy \/ AfterLoop

\* The loop runs in the one thread of scrape(), and every wait returns or
\* times out: a step that can be taken is taken.
SpecLocate == InitLocate /\ [][NextLocate]_vars /\ WF_vars(NextLocate)

\* C10: in the Installment table, for every (parcel_id, tax_year) the
\* installment numbers of its rows in encounter order are 1, 2, ..., k,
\* whatever the shape of tax_data.
C10_NumberingPerParcelYear ==
    pc = "normalized" =>
        \A p \in ParcelIds, y \in YearFields \ {Null} :
            LET group == SelectSeq(installments,
                            LAMBDA r : r.parcel_id = p /\ r.tax_year = y)
            IN  \A k \in 1..Len(group) : group[k].installment_number = k

\* ======================================================================
\* Properties of a scrape() run.
\* ======================================================================

\* C2: at the moment a step issues a request on one channel, that channel's
\* cookie jar holds every cookie acquired so far on the other channel.
C2_ChannelsConsistent ==
    \A r \in reqs : r.missing = {}

\* C3: scrape() returns exactly one bundle per input parcel id, in input
\* order, and once setup has succeeded no parcel's failure ends the run:
\* the bundles collected so far are those of the first parcels in order,
\* only setup can raise, and a returned run has a bundle for every parcel.
C3_OneBundlePerParcel ==
    /\ Len(results) <= Len(parcel_ids)
    /\ \A k \in 1..Len(results) : results[k].parcel_id = parcel_ids[k]
    /\ raising => i = 0 /\ results = << >>
    /\ pc = "exited" /\ outcome = "returned"
          => Len(results) = Len(parcel_ids)

\* A run of two different parcels has returned; the first one failed and
\* the second one still got its tax data.
C3_Witness ==
    /\ pc = "exited" /\ outcome = "returned"
    /\ Len(results) = 2
    /\ parcel_ids[1] # parcel_ids[2]
    /\ results[1].error # Null
    /\ results[2].error = Null /\ results[2].tax_data # Null

\* C4: a parcel whose step failed carries a failure reason: no bundle has
\* both its tax data and its error absent, and a bundle built after a failed
\* step has its error set.
C4_FailureHasReason ==
    /\ \A k \in 1..Len(results) :
          results[k].tax_data # Null \/ results[k].error # Null
    /\ pc \in {"append", "bc_append"} /\ cur.failed # {}
          => cur.result.error # Null

\* C5: when scrape() has exited, on any path, no started browser is still
\* running and the driver reference is cleared.
C5_BrowserReleased ==
    pc = "exited" => browser # "running" /\ driver = Null

\* scrape() has exited by raising, after a browser had been started, and
\* the browser has been quit.
C5_Witness ==
    /\ pc = "exited" /\ outcome = "raised"
    /\ browser = "quit" /\ driver = Null

\* C6: a transport failure during channel setup is fatal: a run in which it
\* happened ends by raising to the caller of scrape().
C6_SetupFailureIsFatal ==
    pc = "exited" /\ setupFailed => outcome = "raised"

\* C7: every bundle of LaCrosseScraper.scrape whose error is populated has
\* search_data null and tax_data null.
C7_ErrorBundleIsEmpty ==
    kind = "lacrosse" =>
        \A k \in 1..Len(results) :
            results[k].error # Null =>
                results[k].search_data = Null /\ results[k].tax_data = Null

\* C8: after every step of BrownCountyScraper that received a response the
\* token set is the previous set merged with the tokens of the response:
\* the tokens of the response with their new values, the others as before
\* (the forms read their token fields from this set).
C8_TokensMerged ==
    lastStep.name # Null => tokens = lastStep.merged

\* The step that precedes each step in the protocol of each driver.
Predecessor(k, step) ==
    CASE step = "gate" -> "acquire_session"
      [] step = "search" -> "gate"
      [] step = "resolve" -> "search"
      [] step = "navigate" -> "resolve"
      [] step = "extract" -> IF k = "brown" THEN "search" ELSE "navigate"
      [] OTHER -> Null

TaxYears == {"2023", "2024"}

\* The installments a tax_data reports for year y as delinquent with a
\* positive amount: those of its top-level list (of the page-extracted one
\* when it has no top-level list) that carry the year, and those under the
\* year key y that carry that year or none.
ReportedDelinquent(tax_data, y) ==
    LET marked(item) ==
            /\ Get(item, "status", "") = "delinquent"
            /\ IsPositive(ParseAmountFromString(Get(item, "amount", << >>)))
        flat == IF HasKey(tax_data, "installments")
                THEN tax_data.installments
                ELSE Get(tax_data, "page_installments", << >>)
        under(entry) ==
            IF IsMapping(entry)
            THEN SelectSeq(Get(entry, "installments", << >>),
                    LAMBDA item : /\ marked(item)
                                  /\ entry.key = y
                                  /\ Get(item, "year", y) = y)
            ELSE << >>
    IN  SelectSeq(flat, LAMBDA item : marked(item)
                                      /\ Get(item, "year", Null) = y)
           \o Flatten([ k \in 1..Len(Keyed(tax_data)) |->
                          under(Keyed(tax_data)[k]) ])

\* The sum of the amounts of a list of items.
RECURSIVE SumOfAmounts(_)
SumOfAmounts(list) ==
    IF list = << >> THEN Zero
    ELSE DecimalAdd(ParseAmountFromString(Head(list).amount)[1],
                    SumOfAmounts(Tail(list)))

\* The unpaid entries a tax_data holds for year y, anywhere.
UnpaidEntriesOf(tax_data, y) ==
    SelectSeq(Get(tax_data, "unpaid_taxes", << >>)
                 \o Get(tax_data, "page_unpaid_taxes", << >>),
              LAMBDA u : Get(u, "year", Null) = y
                         \/ /\ ~HasKey(u, "year")
                            /\ \E k \in 1..Len(Keyed(tax_data)) :
                                  /\ Keyed(tax_data)[k].key = y
                                  /\ IsMapping(Keyed(tax_data)[k])
                                  /\ \E n \in 1..Len(Get(Keyed(tax_data)[k],
                                                   "unpaid_taxes", << >>)) :
                                        Keyed(tax_data)[k].unpaid_taxes[n] = u)

\* The rows of the DelinquentTax table for (parcel_id, y).
DelinquentRowsOf(parcel_id, y) ==
    SelectSeq(delinquent_taxes,
              LAMBDA r : r.parcel_id = parcel_id /\ r.tax_year = y)

\* The bundles of the call that carry tax data.
WithTaxData ==
    { k \in 1..Len(given) : NonEmptyDict(given[k].tax_data) }

\* C11: when a bundle reports delinquent installments with positive amounts
\* for a year, flat or under the year key, and holds no unpaid entry for
\* that year, the DelinquentTax table has exactly one row for the parcel and
\* the year, and its amount is the sum of the amounts of those installments.
C11_DerivedRowPerYear ==
    (kind = "normalizer" /\ pc = "normalized" /\ outcome = "returned") =>
        \A k \in WithTaxData, y \in TaxYears :
            LET reported == ReportedDelinquent(given[k].tax_data, y)
                rows == DelinquentRowsOf(given[k].parcel_id, y)
            IN  (/\ reported # << >>
                 /\ UnpaidEntriesOf(given[k].tax_data, y) = << >>)
                => /\ Len(rows) = 1
                   /\ rows[1].delinquent_amount = SumOfAmounts(reported)

\* The unpaid entries for year y that carry a positive amount.
OwedEntriesOf(tax_data, y) ==
    SelectSeq(UnpaidEntriesOf(tax_data, y),
              LAMBDA u : IsPositive(ParseAmountFromString(
                                        Get(u, "amount", << >>))))

\* Where a bundle holds unpaid entries with a positive amount for a year and
\* also reports delinquent installments for it, the rows of the parcel and
\* the year are those of the unpaid entries, one row an entry, in order:
\* line 315 keeps the installments from adding a row.
NoDerivedRowWhereExplicit ==
    (kind = "normalizer" /\ pc = "normalized" /\ outcome = "returned") =>
        \A k \in WithTaxData, y \in TaxYears :
            LET owed == OwedEntriesOf(given[k].tax_data, y)
                rows == DelinquentRowsOf(given[k].parcel_id, y)
            IN  (/\ owed # << >>
                 /\ ReportedDelinquent(given[k].tax_data, y) # << >>)
                => /\ Len(rows) = Len(owed)
                   /\ \A n \in 1..Len(owed) :
                         rows[n].delinquent_amount =
                            ParseAmountFromString(owed[n].amount)[1]

\* C12: when a bundle holds an unpaid entry with a positive amount for a
\* year and also reports delinquent installments for that year, the
\* DelinquentTax table has exactly one row for the parcel and the year, and
\* the row carries the amount of the unpaid entry, not the sum of the
\* installments.
C12_ExplicitRowWins ==
    (kind = "normalizer" /\ pc = "normalized" /\ outcome = "returned") =>
        \A k \in WithTaxData, y \in TaxYears :
            LET owed == OwedEntriesOf(given[k].tax_data, y)
                rows == DelinquentRowsOf(given[k].parcel_id, y)
            IN  (/\ owed # << >>
                 /\ ReportedDelinquent(given[k].tax_data, y) # << >>)
                => /\ Len(rows) = 1
                   /\ \E n \in 1..Len(owed) :
                         rows[1].delinquent_amount =
                            ParseAmountFromString(owed[n].amount)[1]

\* C13: the DelinquentTax table holds no two rows with the same parcel id
\* and the same tax year.
C13_NoDuplicateDelinquent ==
    (kind = "normalizer" /\ pc = "normalized") =>
        \A a, b \in 1..Len(delinquent_taxes) :
            (/\ a # b
             /\ delinquent_taxes[a].tax_year # Null
             /\ delinquent_taxes[a].parcel_id = delinquent_taxes[b].parcel_id)
            => delinquent_taxes[a].tax_year # delinquent_taxes[b].tax_year

\* C14: every row of the DelinquentTax table has an amount above zero and
\* the status delinquent.
C14_DelinquentAmountPositive ==
    \A k \in 1..Len(delinquent_taxes) :
        /\ delinquent_taxes[k].delinquent_amount.m > 0
        /\ delinquent_taxes[k].status = "delinquent"

\* A bundle with unpaid entries of 75 and of -5 and with a delinquent
\* installment of another year has given one row from the entry of 75 and
\* one row derived from the installment.
C14_Witness ==
    /\ kind = "normalizer" /\ pc = "normalized" /\ outcome = "returned"
    /\ given[1].tax_data =
          [ installments |->
                << [ year |-> "2023", status |-> "delinquent",
                     amount |-> A100 ],
                   [ year |-> "2024", status |-> "delinquent",
                     amount |-> A0 ] >>,
            unpaid_taxes |-> << [ year |-> "2024", amount |-> AMinus5 ],
                                [ year |-> "2024", amount |-> A75 ] >> ]
    /\ Len(given) = 1
    /\ Len(delinquent_taxes) = 2
    /\ delinquent_taxes[1].tax_year = "2024"
    /\ delinquent_taxes[2].tax_year = "2023"

\* The parcel ids of a table.
ParcelsOf(table) == { table[k].parcel_id : k \in 1..Len(table) }

\* C15: every row of the TaxPeriod, Installment, DelinquentTax and
\* PenaltyInterest tables belongs to a parcel that has a Property row; a
\* bundle without a Property row has no row in any table.
C15_ChildRowsHaveProperty ==
    (kind = "normalizer" /\ pc = "normalized") =>
        ParcelsOf(tax_periods) \cup ParcelsOf(installments)
           \cup ParcelsOf(delinquent_taxes) \cup ParcelsOf(penalties_interest)
        \subseteq ParcelsOf(properties)

\* C16: normalize_scraped_data() returns, whatever the content of the
\* bundles, and every bundle has been normalized: a bundle that can have a
\* Property row has it.
C16_NeverRaises ==
    (kind = "normalizer" /\ pc = "normalized") =>
        /\ outcome = "returned"
        /\ \A k \in 1..Len(given) :
              ExtractPropertyInfo(given[k].parcel_id, given[k].search_data,
                                  given[k].tax_data) # NoInfo
              => given[k].parcel_id \in ParcelsOf(properties)

\* C17: after normalize_scraped_data() the bundle list is what it was when
\* the call began.
C17_InputUnchanged ==
    (kind = "normalizer" /\ pc = "normalized" /\ outcome = "returned")
        => scraped_results = given

\* C18: after a call of scrape_county() that returned, the tables returned
\* hold exactly the rows of the bundles of that call, labelled with its
\* county.
C18_TablesOfThisCallOnly ==
    (kind = "multi" /\ i > 0 /\ outcome = "returned") =>
        \E county \in Scrapers :
            normalized_data =
                Labelled(NormalizeScrapedData(NoTables, given).self, county)

\* ======================================================================
\* Properties of the coercion functions.
\* ======================================================================

\* The characters of a string that are digits, '.' or '-', in order.
RECURSIVE Kept(_)
Kept(s) ==
    IF s = << >> THEN << >>
    ELSE IF Head(s) \in Digits \cup {".", "-"}
         THEN << Head(s) >> \o Kept(Tail(s))
         ELSE Kept(Tail(s))

\* A decimal numeral: an optional '-', then digits with at most one '.'
\* among them, at least one digit.
IsNumeral(t) ==
    /\ \A k \in 2..Len(t) : t[k] # "-"
    /\ Cardinality({ k \in 1..Len(t) : t[k] = "." }) <= 1
    /\ \E k \in 1..Len(t) : t[k] \in Digits

\* The number a decimal numeral denotes: each digit weighs ten to the
\* number of digits after it; the digits after the '.' are the fraction.
RECURSIVE WeighedDigits(_, _)
WeighedDigits(t, k) ==
    IF k > Len(t) THEN 0
    ELSE (IF t[k] \in Digits
          THEN DigitValue(t[k])
                  * Pow10(Cardinality({ j \in (k + 1)..Len(t) :
                                          t[j] \in Digits }))
          ELSE 0) + WeighedDigits(t, k + 1)

NumeralValue(t) ==
    LET digitsAfterPoint ==
            { j \in 1..Len(t) : t[j] \in Digits
                                /\ \E p \in 1..(j - 1) : t[p] = "." }
        magnitude == WeighedDigits(t, 1)
    IN  Decimal(IF t[1] = "-" THEN 0 - magnitude ELSE magnitude,
                Cardinality(digitsAfterPoint))

\* C19: amount coercion of a string returns the number that is left when
\* every character other than digits, '.' and '-' is deleted, and None
\* when what is left is empty or is no number.
C19_AmountIsCleanedNumber ==
    coerced.fn = "amount" =>
        LET expected == IF IsNumeral(Kept(value))
                        THEN Some(NumeralValue(Kept(value))) ELSE None
        IN  /\ coerced.parsed = expected
            /\ coerced.extracted = expected

\* The string "$1,5" has been coerced to 15, and "$1.5" to 1.5.
C19_Witness ==
    /\ coerced.fn = "amount"
    /\ \/ value = << "$", "1", ",", "5" >>
          /\ coerced.parsed = Some([ m |-> 15, e |-> 0 ])
       \/ value = << "$", "1", ".", "5" >>
          /\ coerced.parsed = Some([ m |-> 15, e |-> 1 ])
    /\ coerced.extracted = coerced.parsed

\* The dates of the calendar among those drawn, written in each of the four
\* patterns, with and without leading zeros.
DatesWritten ==
    { [ text |-> Written(q[1][1], q[2], q[3], q[4], q[1][2], q[1][2], q[5]),
        iso |-> Pad4(q[2]) \o << "-" >> \o Pad2(q[3]) \o << "-" >>
                   \o Pad2(q[4])
                   \o << "T", "0", "0", ":", "0", "0", ":", "0", "0" >> ] :
        q \in { t \in { << "Ymd", "-" >>, << "mdY", "/" >>,
                        << "mdY", "-" >>, << "Ymd", "/" >> }
                      \X DateYears \X {2, 12} \X DateDays \X BOOLEAN :
                  t[4] <= 28 \/ t[3] = 12 \/ (t[4] = 29 /\ t[2] = 2024) } }

\* C20: date coercion of a string written in one of the four patterns
\* returns the ISO-8601 timestamp of that date at midnight; of any other
\* non-empty string it returns the string itself.  _extract_date() reads the
\* string as it is, _parse_date_from_string() without the blanks around it.
C20_DateIsIsoOrUnchanged ==
    coerced.fn = "date" =>
        LET exact == { w \in DatesWritten : w.text = value }
            stripped == { w \in DatesWritten : w.text = Strip(value) }
        IN  /\ \A w \in exact : coerced.extracted = Some(w.iso)
            /\ \A w \in stripped : coerced.parsed = Some(w.iso)
            /\ (exact = {} /\ value # << >>)
                  => coerced.extracted = Some(value)
            /\ (stripped = {} /\ value # << >>)
                  => coerced.parsed = Some(value)

\* "02/29/2024" has been coerced to "2024-02-29T00:00:00".
C20_Witness ==
    /\ coerced.fn = "date"
    /\ value = << "0", "2", "/", "2", "9", "/", "2", "0", "2", "4" >>
    /\ coerced.parsed =
          Some(<< "2", "0", "2", "4", "-", "0", "2", "-", "2", "9", "T",
                  "0", "0", ":", "0", "0", ":", "0", "0" >>)
    /\ coerced.extracted = coerced.parsed

\* ======================================================================
\* Properties of the token gate, the property id and the tax page.
\* ======================================================================

\* C22: when the initial GET of BrownCountyScraper.scrape_parcel() succeeds
\* and its response holds no __VIEWSTATE, whatever other tokens it holds,
\* the parcel goes on to the gate step.
C22_MissingTokenNotFatal ==
    ( /\ kind = "brown"
      /\ lastStep.name = "get_cookie"
      /\ trace # << >>
      /\ trace[Len(trace)] = Event(i, "acquire_session", TRUE)
      /\ tokens["__VIEWSTATE"] = Null )
    => pc = "bc_accept_terms"

\* The parcel in progress has had its property id chosen (lines 975-980).
Resolved ==
    /\ kind = "lacrosse"
    /\ \E n \in 1..Len(trace) : trace[n].p = i /\ trace[n].step = "resolve"

\* A tax step (navigation to the tax view, page extraction, the API tax
\* request) has run for the parcel in progress.
TaxStepRun ==
    \E n \in 1..Len(trace) :
        trace[n].p = i /\ trace[n].step \in {"navigate", "extract"}

\* C23: the property id used for the tax steps is the id of the browser's
\* result row whenever the browser search gave one, and the id of the API
\* result only when it gave none (a failed browser search included); with
\* neither id no tax step runs for the parcel.
C23_RowIdWins ==
    Resolved =>
        /\ cur.property_id =
              IF cur.selenium_result.property_id # Null
              THEN cur.selenium_result.property_id
              ELSE ParseApiPropertyId(cur.result.search_data)
        /\ cur.property_id = Null =>
              /\ ~TaxStepRun
              /\ pc = "append"

\* Both searches gave an id, and the tax view was reached with the id of
\* the browser's row.
C23_Witness ==
    /\ Resolved
    /\ cur.result.search_data = "id"
    /\ cur.selenium_result.property_id = RowPropertyId
    /\ cur.property_id = RowPropertyId
    /\ \E n \in 1..Len(trace) : trace[n] = Event(i, "navigate", TRUE)

\* The navigations to the tax view attempted so far for the parcel in
\* progress, in order: the click path, when a row reference was captured,
\* then direct navigation.
Navigations ==
    SelectSeq(trace, LAMBDA e : e.p = i /\ e.step = "navigate")

\* C24: direct navigation to the tax view is attempted only when no row
\* reference was captured or the click path failed, never after the click
\* path succeeded, and each path is attempted at most once per parcel.
C24_DirectOnlyAfterFailedClick ==
    kind = "lacrosse" =>
        /\ Len(Navigations) <= 2
        /\ Len(Navigations) = 2 => cur.row_element # Null
        /\ pc = "direct_nav" =>
              \/ cur.row_element = Null /\ Navigations = << >>
              \/ /\ cur.row_element # Null
                 /\ Navigations = << Event(i, "navigate", FALSE) >>

\* ======================================================================
\* Properties of the extraction of rows.
\* ======================================================================

\* A tax_year as the tables are meant to hold it: null, or 4 digits within
\* [1900, 2100].
ValidYear(y) ==
    \/ y = Null
    \/ IsFourDigits(y) /\ 1900 <= YearInt(y) /\ YearInt(y) <= 2100

\* C21: every tax_year written to the TaxPeriod, Installment and
\* DelinquentTax tables is null or a 4-digit year within [1900, 2100].
C21_TaxYearsValid ==
    (kind = "normalizer" /\ pc = "normalized") =>
        /\ \A k \in 1..Len(tax_periods) : ValidYear(tax_periods[k].tax_year)
        /\ \A k \in 1..Len(installments) : ValidYear(installments[k].tax_year)
        /\ \A k \in 1..Len(delinquent_taxes) :
              ValidYear(delinquent_taxes[k].tax_year)

\* The last table of the last bundle of the call, as a one-element set (no
\* element: the bundle has no table); its rows are the last rows of the
\* Installment table.
LastTable ==
    IF given = << >> THEN {}
    ELSE LET tables == Get(given[Len(given)].tax_data, "tax_tables", << >>)
         IN  IF tables = << >> THEN {} ELSE { tables[Len(tables)] }

\* C29: a field of a table row is left unextracted only when no header of
\* the table names its role: under a year header at any column position,
\* the first included, a 4-digit cell is the tax_year of the row.
C29_HeaderedYearExtracted ==
    (kind = "normalizer" /\ pc = "normalized" /\ outcome = "returned") =>
        \A table \in LastTable :
            \A n \in 1..Len(table.rows) :
                ( /\ table.year_idx # -1
                  /\ table.rows[n].year # Null
                  /\ IsFourDigits(table.rows[n].year) )
                => installments[Len(installments) - Len(table.rows) + n]
                      .tax_year = table.rows[n].year

\* C26: a type text with a cue word decides the installment type at every
\* position: 'second' or '2nd' (without 'first' or '1st') gives 2nd_half,
\* 'first' or '1st' gives 1st_half; and every installment type is 1st_half,
\* 2nd_half or installment_N.
C26_TypeCueOverridesPosition ==
    coerced.fn = "installment_type" =>
        LET type_str == Lower(value.text)
            first == Contains(W_first, type_str) \/ Contains(W_1st, type_str)
            second == \/ Contains(W_second, type_str)
                      \/ Contains(W_2nd, type_str)
        IN  /\ first /\ ~second => coerced.installment_type = FirstHalf
            /\ second /\ ~first => coerced.installment_type = SecondHalf
            /\ coerced.installment_type \in
                  { FirstHalf, SecondHalf }
                     \cup { InstallmentN(n) : n \in 1..MaxInstallmentNum }

\* C27: a status text that contains 'unpaid' or 'delinquent' makes the
\* installment delinquent, as _determine_status() reads the same text.
C27_UnpaidIsDelinquent ==
    ( /\ coerced.fn = "status"
      /\ \/ Contains(W_unpaid, Lower(value.text))
         \/ Contains(W_delinquent, Lower(value.text)) )
    => /\ coerced.installment_status = "delinquent"
       /\ coerced.installment_status = coerced.status

\* The sum of the amounts of the rows of the Installment table for
\* (parcel_id, y) whose status is delinquent.
RECURSIVE DelinquentInstallmentSum(_, _, _)
DelinquentInstallmentSum(rows, parcel_id, y) ==
    IF rows = << >> THEN Zero
    ELSE IF /\ Head(rows).parcel_id = parcel_id
            /\ Head(rows).tax_year = y
            /\ Head(rows).status = "delinquent"
            /\ Head(rows).amount # None
    THEN DecimalAdd(Head(rows).amount[1],
                    DelinquentInstallmentSum(Tail(rows), parcel_id, y))
    ELSE DelinquentInstallmentSum(Tail(rows), parcel_id, y)

\* The bundle holds no unpaid entry, so that every DelinquentTax row of its
\* parcel is derived from installments.
NoUnpaidEntry(tax_data) ==
    /\ NonEmptyDict(tax_data)
    /\ Get(tax_data, "unpaid_taxes", << >>) = << >>
    /\ Get(tax_data, "page_unpaid_taxes", << >>) = << >>

\* C30: the Installment and DelinquentTax tables count each source
\* installment alike: the amount of a DelinquentTax row derived from
\* installments is the sum of the amounts of the delinquent rows of the
\* Installment table for its parcel and year.
C30_DerivedAmountMatchesInstallments ==
    (kind = "normalizer" /\ pc = "normalized" /\ outcome = "returned") =>
        \A b \in 1..Len(given) :
            NoUnpaidEntry(given[b].tax_data) =>
                \A k \in 1..Len(delinquent_taxes) :
                    delinquent_taxes[k].parcel_id = given[b].parcel_id =>
                        delinquent_taxes[k].delinquent_amount =
                            DelinquentInstallmentSum(installments,
                                given[b].parcel_id,
                                delinquent_taxes[k].tax_year)

\* The rows of the PenaltyInterest table for a parcel.
PenaltyRowsOf(parcel_id) ==
    SelectSeq(penalties_interest, LAMBDA r : r.parcel_id = parcel_id)

\* C25: the PenaltyInterest table has a row for a bundle only when its
\* tax_data carries a penalty or an interest field: with neither field no
\* row is written, whatever else tax_data holds; and in every row the
\* penalty and the interest are at least 0 and the total is their sum.
C25_PenaltyRowOnlyFromItsFields ==
    (kind = "normalizer" /\ pc = "normalized" /\ outcome = "returned") =>
        /\ \A b \in 1..Len(given) :
              ( /\ IsDict(given[b].tax_data)
                /\ ~HasKey(given[b].tax_data, "penalty")
                /\ ~HasKey(given[b].tax_data, "interest") )
              => PenaltyRowsOf(given[b].parcel_id) = << >>
        /\ \A k \in 1..Len(penalties_interest) :
              /\ penalties_interest[k].penalty_amount.m >= 0
              /\ penalties_interest[k].interest_amount.m >= 0
              /\ penalties_interest[k].total_penalties_interest =
                    DecimalAdd(penalties_interest[k].penalty_amount,
                               penalties_interest[k].interest_amount)

\* ======================================================================
\* Properties of the locate loops.
\* ======================================================================

\* The tries made are the first selectors of the list, in order, and only
\* the last one can have found an element or failed otherwise.
TriedInOrder ==
    /\ Len(locate.tried) <= Len(Selectors(locate.step))
    /\ \A k \in 1..Len(locate.tried) :
          /\ locate.tried[k].selector = Selectors(locate.step)[k]
          /\ k < Len(locate.tried) =>
                locate.tried[k].outcome \in {"timeout", "hidden"}

\* The element taken is the one of the first try that found one.
FirstFoundTaken ==
    IF \E k \in 1..Len(locate.tried) : locate.tried[k].outcome = "found"
    THEN locate.target = locate.tried[Len(locate.tried)].selector
    ELSE locate.target = Null

\* The step goes on only with an element, and fails without one: with the
\* message of the step once every selector has been tried in vain, or with
\* the exception of the driver that ended the loop.
EndsAsFound ==
    /\ pc = "located" => locate.target # Null /\ locate.raised = Null
    /\ pc = "raised" =>
          /\ locate.target = Null
          /\ \/ /\ locate.raised = NotFoundMessage(locate.step)
                /\ Len(locate.tried) = Len(Selectors(locate.step))
             \/ /\ locate.raised = "WebDriverException"
                /\ locate.tried[Len(locate.tried)].outcome = "error"
    /\ pc \in {"loop", "after_loop"} => locate.raised = Null

\* C28: every locate step tries its selectors in the listed order, each at
\* most once, takes the first one that gives an interactable element, fails
\* with a reason when none does, and always ends.
C28_LocateEnds ==
    /\ [](kind = "locate" => TriedInOrder /\ FirstFoundTaken /\ EndsAsFound)
    /\ <>(pc \in {"located", "raised"})

\* The parcel input was found by the third selector, after a timeout and an
\* element that was not displayed.
C28_Witness ==
    /\ kind = "locate" /\ pc = "located"
    /\ locate.step = "parcel_input"
    /\ Len(locate.tried) = 3
    /\ locate.tried[1].outcome = "timeout"
    /\ locate.tried[2].outcome = "hidden"
    /\ locate.target = ParcelInputSelectors[3]

====
